---------------------------- MODULE Spec2Model ----------------------------
(***************************************************************************)
(* A model of the RAG PDF agent: the VectorStore wrapper                   *)
(* (src/src/vector_store.py), the RAG chain (src/src/rag_chain.py) and the *)
(* REST process built on them (src/api.py).                                *)
(*                                                                         *)
(* Three specifications share the variables:                               *)
(*   SpecVS    one VectorStore object driven method by method, over a disk *)
(*             that outlives the object;                                   *)
(*   Spec      the API process: module globals, requests, restart;         *)
(*   SpecChat  RAGChain.chat_with_history and the /chat handler.           *)
(*                                                                         *)
(* The external libraries are modelled by what they are documented to do:  *)
(* a FAISS index is an in-memory list of entries that save_local writes    *)
(* and load_local reads; a Chroma store opened on a persist directory is a *)
(* handle to the collection kept in that directory.                        *)
(***************************************************************************)
EXTENDS Integers, Sequences, FiniteSets, TLC

\* ------------------------------------------------------------------ bounds

\* The longest index (number of entries) the model lets an insert build.
MaxEntries == 2
\* The largest k a search is asked for.
MaxK == 2
\* The longest conversation history a caller supplies.
MaxHistory == 4
\* The most processed-file records the UI session is followed for.
MaxFiles == 2
\* The most turns the UI session is followed for.
MaxUiTurns == 1
\* The longest text handed to truncate_text, and the largest max_length.
MaxText == 3
MaxLength == 4
\* The most Config instances constructed besides the module-level one.
MaxInstances == 2

\* The texts a segment or a question can carry, and the batches an insert
\* is given (every batch is non-empty; a text may repeat).
Docs == {"a", "b"}
Batches == {<<"a">>, <<"a", "b">>}
Queries == {"a", "b"}
KValues == 1..MaxK

\* ------------------------------------------------------------------ errors

\* An exception is the chain of its messages, outermost context first:
\* raise Exception(f"<context>: {str(e)}") prepends one context.
NoErr == <<>>
Raise(msg) == <<msg>>
\* A plausible slip: a generic failure that drops the message it wraps.
Wrap_dropping(context, e) == <<context>>
Wrap(context, e) == <<context>> \o e
NotInitialized == "Vector store not initialized"
ProviderFailure == "provider failure"
IOFailure == "io failure"

Min(a, b) == IF a < b THEN a ELSE b
Last(s) == s[Len(s)]
Front(s) == SubSeq(s, 1, Len(s) - 1)

\* ------------------------------------------------- the nearest-neighbour library

\* The distance of a stored text from a query text (the embedding model and
\* the metric are the library's): 0 for the same text, 1 otherwise.
Dist(q, d) == IF q = d THEN 0 ELSE 1

\* s with d put after every element at most as far from q as d (a stable
\* insertion: ties stay in insertion order).
RECURSIVE InsertByDist(_, _, _)
InsertByDist(s, d, q) ==
    IF s = <<>> THEN <<d>>
    ELSE IF Dist(q, Last(s)) <= Dist(q, d) THEN Append(s, d)
    ELSE Append(InsertByDist(Front(s), d, q), Last(s))

RECURSIVE SortByDist(_, _)
SortByDist(entries, q) ==
    IF entries = <<>> THEN <<>>
    ELSE InsertByDist(SortByDist(Front(entries), q), Last(entries), q)

\* A plausible slip: the first k entries as they were inserted.
TopK_insertion_order(entries, q, k) == SubSeq(entries, 1, Min(k, Len(entries)))
\* The k nearest entries, nearest first; fewer when fewer are stored.
TopK(entries, q, k) ==
    LET sorted == SortByDist(entries, q)
    IN SubSeq(sorted, 1, Min(k, Len(sorted)))

WithScores(docs, q) == [i \in 1..Len(docs) |-> <<docs[i], Dist(q, docs[i])>>]

\* ------------------------------------------------------------------ the disk

\* path arguments of save/load: None, or a custom path.
NoPath == "None"
CustomPath == "custom"
DefaultPath == "persist_directory/faiss_index"
PathArgs == {NoPath, CustomPath}
Paths == {DefaultPath, CustomPath}

NoSnapshot == [exists |-> FALSE, docs |-> <<>>]
Snapshot(docs) == [exists |-> TRUE, docs |-> docs]
\* faiss: the snapshot at each path; chroma: the collection kept in
\* persist_directory (an absent collection is an empty one: it is created
\* on open).
EmptyDisk == [faiss |-> [p \in Paths |-> NoSnapshot], chroma |-> <<>>]

\* ------------------------------------------------------- the VectorStore object

StoreTypes == {"faiss", "chroma"}
NoIndex == [init |-> FALSE, docs |-> <<>>]
FaissIndex(docs) == [init |-> TRUE, docs |-> docs]
ChromaHandle == [init |-> TRUE, docs |-> <<>>]

\* VectorStore.__init__: the index starts as None; persist_directory is
\* created, so it exists from then on.
NewVectorStore(store_type) == [store_type |-> store_type, vector_store |-> NoIndex]
PersistDirExists == TRUE

\* What a method leaves behind: the object, the disk, the exception raised
\* (NoErr: it returned) and what it returned.
Outcome(self, disk, err, docs, n) ==
    [self |-> self, disk |-> disk, err |-> err, docs |-> docs, pairs |-> <<>>, n |-> n]

\* The entries the index holds.
Entries(self, disk) ==
    IF ~self.vector_store.init THEN <<>>
    ELSE IF self.store_type = "faiss" THEN self.vector_store.docs
    ELSE disk.chroma

\* VectorStore.get_document_count
get_document_count(self, disk) ==
    IF ~self.vector_store.init THEN 0
    ELSE IF self.store_type = "faiss" THEN Len(self.vector_store.docs)
    ELSE IF self.store_type = "chroma" THEN Len(disk.chroma)
    ELSE 0

\* VectorStore.create_vector_store.  fail: the embedding of the documents
\* fails; FAISS.from_documents also fails on an empty list.
create_vector_store(self, disk, documents, fail) ==
    IF self.store_type = "faiss" THEN
        IF fail \/ documents = <<>>
        THEN Outcome(self, disk,
                     Wrap("Error creating vector store", Raise(ProviderFailure)), <<>>, 0)
        ELSE Outcome([self EXCEPT !.vector_store = FaissIndex(documents)],
                     disk, NoErr, <<>>, 0)
    ELSE IF self.store_type = "chroma" THEN
        IF fail
        THEN Outcome(self, disk,
                     Wrap("Error creating vector store", Raise(ProviderFailure)), <<>>, 0)
        ELSE Outcome([self EXCEPT !.vector_store = ChromaHandle],
                     [disk EXCEPT !.chroma = @ \o documents], NoErr, <<>>, 0)
    ELSE Outcome(self, disk,
                 Wrap("Error creating vector store",
                      Raise("Unsupported vector store type")), <<>>, 0)

\* A plausible slip: the library call replacing what the index holds.
LibraryAppend_replacing(self, disk, documents) ==
    IF self.store_type = "faiss"
    THEN Outcome([self EXCEPT !.vector_store.docs = documents], disk, NoErr, <<>>, 0)
    ELSE Outcome(self, [disk EXCEPT !.chroma = documents], NoErr, <<>>, 0)

\* The library's add_documents on an existing index: appends, in place.
LibraryAppend(self, disk, documents) ==
    IF self.store_type = "faiss"
    THEN Outcome([self EXCEPT !.vector_store.docs = @ \o documents], disk, NoErr, <<>>, 0)
    ELSE Outcome(self, [disk EXCEPT !.chroma = @ \o documents], NoErr, <<>>, 0)

\* A plausible slip: add_documents that always builds a new index.
add_documents_always_create(self, disk, documents, fail) ==
    LET r == create_vector_store(self, disk, documents, fail)
    IN IF r.err # NoErr
       THEN [r EXCEPT !.err = Wrap("Error adding documents", @)]
       ELSE r

\* VectorStore.add_documents
add_documents(self, disk, documents, fail) ==
    IF ~self.vector_store.init THEN
        LET r == create_vector_store(self, disk, documents, fail)
        IN IF r.err # NoErr
           THEN [r EXCEPT !.err = Wrap("Error adding documents", @)]
           ELSE r
    ELSE IF fail \/ documents = <<>>
         THEN Outcome(self, disk,
                      Wrap("Error adding documents", Raise(ProviderFailure)), <<>>, 0)
         ELSE LibraryAppend(self, disk, documents)

\* A plausible slip: the search without its "is None" check.
similarity_search_unchecked(self, disk, query, k, fail) ==
    IF fail
    THEN Outcome(self, disk,
                 Wrap("Error performing similarity search", Raise(ProviderFailure)), <<>>, 0)
    ELSE Outcome(self, disk, NoErr, TopK(Entries(self, disk), query, k), 0)

\* VectorStore.similarity_search (filter_dict is handed to the library
\* unchanged; the model searches without a filter).
similarity_search(self, disk, query, k, fail) ==
    IF ~self.vector_store.init
    THEN Outcome(self, disk,
                 Wrap("Error performing similarity search", Raise(NotInitialized)), <<>>, 0)
    ELSE IF fail
    THEN Outcome(self, disk,
                 Wrap("Error performing similarity search", Raise(ProviderFailure)), <<>>, 0)
    ELSE Outcome(self, disk, NoErr, TopK(Entries(self, disk), query, k), 0)

\* VectorStore.similarity_search_with_score: pairs holds the (document, score) pairs.
similarity_search_with_score(self, disk, query, k, fail) ==
    IF ~self.vector_store.init
    THEN Outcome(self, disk,
                 Wrap("Error performing similarity search with score",
                      Raise(NotInitialized)), <<>>, 0)
    ELSE IF fail
    THEN Outcome(self, disk,
                 Wrap("Error performing similarity search with score",
                      Raise(ProviderFailure)), <<>>, 0)
    ELSE [Outcome(self, disk, NoErr, <<>>, 0)
             EXCEPT !.pairs = WithScores(TopK(Entries(self, disk), query, k), query)]

\* A plausible slip: the snapshot written where no later load looks.
FaissSavePath_elsewhere(path) == CustomPath
\* path or os.path.join(self.persist_directory, "faiss_index")
FaissSavePath(path) == IF path = NoPath THEN DefaultPath ELSE path
\* A plausible slip: the load that ignores its path argument.
FaissLoadPath_default_only(path) == DefaultPath
FaissLoadPath(path) == IF path = NoPath THEN DefaultPath ELSE path

\* VectorStore.save_vector_store.  fail: the write fails.
save_vector_store(self, disk, path, fail) ==
    IF ~self.vector_store.init
    THEN Outcome(self, disk,
                 Wrap("Error saving vector store", Raise(NotInitialized)), <<>>, 0)
    ELSE IF fail
    THEN Outcome(self, disk,
                 Wrap("Error saving vector store", Raise(IOFailure)), <<>>, 0)
    ELSE IF self.store_type = "faiss"
    THEN Outcome(self,
                 [disk EXCEPT !.faiss[FaissSavePath(path)] = Snapshot(self.vector_store.docs)],
                 NoErr, <<>>, 0)
    ELSE Outcome(self, disk, NoErr, <<>>, 0)

\* VectorStore.load_vector_store.  fail: what is found cannot be read.
load_vector_store(self, disk, path, fail) ==
    IF self.store_type = "faiss" THEN
        IF disk.faiss[FaissLoadPath(path)].exists
        THEN IF fail
             THEN Outcome(self, disk,
                          Wrap("Error loading vector store", Raise(IOFailure)), <<>>, 0)
             ELSE Outcome([self EXCEPT !.vector_store =
                                  FaissIndex(disk.faiss[FaissLoadPath(path)].docs)],
                          disk, NoErr, <<>>, 0)
        ELSE Outcome(self, disk, NoErr, <<>>, 0)
    ELSE IF self.store_type = "chroma" THEN
        IF PersistDirExists
        THEN IF fail
             THEN Outcome(self, disk,
                          Wrap("Error loading vector store", Raise(IOFailure)), <<>>, 0)
             ELSE Outcome([self EXCEPT !.vector_store = ChromaHandle], disk, NoErr, <<>>, 0)
        ELSE Outcome(self, disk, NoErr, <<>>, 0)
    ELSE Outcome(self, disk, NoErr, <<>>, 0)

\* VectorStore.delete_vector_store.  fail: delete_collection fails.
delete_vector_store(self, disk, fail) ==
    IF self.store_type = "chroma" /\ self.vector_store.init
    THEN IF fail
         THEN Outcome(self, disk,
                      Wrap("Error deleting vector store", Raise(IOFailure)), <<>>, 0)
         ELSE Outcome([self EXCEPT !.vector_store = NoIndex],
                      [disk EXCEPT !.chroma = <<>>], NoErr, <<>>, 0)
    ELSE Outcome([self EXCEPT !.vector_store = NoIndex], disk, NoErr, <<>>, 0)

\* VectorStore.get_store_info (the embedding info is the provider's).
get_store_info(self, disk) ==
    [type |-> self.store_type, document_count |-> get_document_count(self, disk)]

\* ------------------------------------------------------------------ RAGChain

\* The generated answers the hosted model may give.
Answers == {"x", "y"}
DefaultK == 4

\* A conversation turn, and the chat_history argument: None or a list.
Turn(q, a) == [question |-> q, answer |-> a]
NoneHistory == [none |-> TRUE, turns |-> <<>>]
History(turns) == [none |-> FALSE, turns |-> turns]

\* The text of a question handed to query(), as the pieces it is
\* concatenated from: the question alone, or the history block before it.
PlainQuestion(question) == <<question>>
\* The point the embedding model maps a question text to (the model is the
\* provider's): the question the text ends with.
EmbedKey(text) == Last(text)

NoChain == [exists |-> FALSE, k |-> DefaultK]
ChainResult(chain, err) ==
    [chain |-> chain, err |-> err, answer |-> "", source_documents |-> <<>>,
     prompt |-> [context |-> <<>>, question |-> PlainQuestion("")]]

\* A plausible slip: the hosted model made without looking for the key.
initialize_llm_unchecked(api_key) == NoErr

\* RAGChain._initialize_llm (llm_type "openai")
initialize_llm(api_key) ==
    IF ~api_key
    THEN Wrap("Error initializing LLM", Raise("OPENAI_API_KEY not found"))
    ELSE NoErr

\* A plausible slip: the chain set up without its "is None" check.
setup_chain_unchecked(vs) == NoErr

\* RAGChain._setup_chain: the retriever is made with k = 4.
setup_chain(vs) ==
    IF ~vs.vector_store.init
    THEN Wrap("Error setting up RAG chain", Raise(NotInitialized))
    ELSE NoErr

\* RAGChain.__init__: the chain, or the exception of the step that failed.
RAGChain(vs, api_key) ==
    IF initialize_llm(api_key) # NoErr THEN ChainResult(NoChain, initialize_llm(api_key))
    ELSE IF setup_chain(vs) # NoErr THEN ChainResult(NoChain, setup_chain(vs))
    ELSE ChainResult([exists |-> TRUE, k |-> DefaultK], NoErr)

\* RAGChain.query: one call of the retrieval-QA chain (embed the question,
\* retrieve k entries, fill the prompt, call the model).  fail: that call
\* raises; answer: what the model generates.
query(chain, vs, d, text, k, fail, answer) ==
    IF ~chain.exists
    THEN ChainResult(chain, Wrap("Error querying RAG system",
                                 Raise("RAG chain not initialized")))
    ELSE LET c == [chain EXCEPT !.k = k]
             found == TopK(Entries(vs, d), EmbedKey(text), k)
         IN IF fail
            THEN ChainResult(c, Wrap("Error querying RAG system", Raise(ProviderFailure)))
            ELSE [chain |-> c, err |-> NoErr, answer |-> answer,
                  source_documents |-> found,
                  prompt |-> [context |-> found, question |-> text]]

Max(a, b) == IF a > b THEN a ELSE b
\* chat_history[-3:]
HistoryWindow == 3
\* A plausible slip: the first turns instead of the last.
LastTurns_oldest(turns) == SubSeq(turns, 1, Min(HistoryWindow, Len(turns)))
LastTurns(turns) == SubSeq(turns, Max(1, Len(turns) - HistoryWindow + 1), Len(turns))

\* f"Q: {entry['question']}\nA: {entry['answer']}\n\n" for each entry
RECURSIVE HistoryLines(_)
HistoryLines(turns) ==
    IF turns = <<>> THEN <<>>
    ELSE <<"Q: ", Head(turns).question, "\nA: ", Head(turns).answer, "\n\n">>
         \o HistoryLines(Tail(turns))

\* The question text chat_with_history builds: the last turns of a
\* non-empty history before the question, or the question alone.
context_question(question, chat_history) ==
    IF chat_history.turns # <<>>
    THEN <<"Riwayat percakapan:\n">> \o HistoryLines(LastTurns(chat_history.turns))
         \o <<"Pertanyaan saat ini: ", question>>
    ELSE PlainQuestion(question)

\* A plausible slip: the returned history cut to the turns the context
\* question uses.
chat_with_history_truncating(chain, vs, d, question, chat_history, fail, answer) ==
    LET r == query(chain, vs, d, context_question(question, chat_history),
                   DefaultK, fail, answer)
    IN IF r.err # NoErr
       THEN [chain |-> r.chain, err |-> Wrap("Error in chat with history", r.err),
             answer |-> "", source_documents |-> <<>>, prompt |-> r.prompt,
             chat_history |-> chat_history]
       ELSE [chain |-> r.chain, err |-> NoErr,
             answer |-> r.answer, source_documents |-> r.source_documents,
             prompt |-> r.prompt,
             chat_history |-> History(Append(LastTurns(chat_history.turns),
                                             Turn(question, r.answer)))]

\* RAGChain.chat_with_history: query() on the context question, then the
\* new turn appended to the history (a None history becomes a list first).
chat_with_history(chain, vs, d, question, chat_history, fail, answer) ==
    LET r == query(chain, vs, d, context_question(question, chat_history),
                   DefaultK, fail, answer)
    IN IF r.err # NoErr
       THEN [chain |-> r.chain, err |-> Wrap("Error in chat with history", r.err),
             answer |-> "", source_documents |-> <<>>, prompt |-> r.prompt,
             chat_history |-> chat_history]
       ELSE [chain |-> r.chain, err |-> NoErr,
             answer |-> r.answer, source_documents |-> r.source_documents,
             prompt |-> r.prompt,
             chat_history |-> History(Append(chat_history.turns,
                                             Turn(question, r.answer)))]

\* ------------------------------------------------------------------ the API

\* File names, as their characters.
PdfSuffix == <<".", "p", "d", "f">>
Filenames ==
    { <<"a", ".", "p", "d", "f">>, <<"A", ".", "P", "D", "F">>,
      <<"a", ".", "t", "x", "t">>, <<"p", "d", "f">>, <<"a", ".", "p", "d", "f", "x">> }

\* str.lower, character by character
LowerChar(c) ==
    CASE c = "A" -> "a" [] c = "P" -> "p" [] c = "D" -> "d" [] c = "F" -> "f"
      [] OTHER -> c
Lower(name) == [i \in 1..Len(name) |-> LowerChar(name[i])]
\* str.endswith
EndsWith(name, suffix) ==
    /\ Len(name) >= Len(suffix)
    /\ SubSeq(name, Len(name) - Len(suffix) + 1, Len(name)) = suffix

\* file.filename.lower().endswith('.pdf')
IsPdfName(name) == EndsWith(Lower(name), PdfSuffix)

\* What parsing and chunking an uploaded PDF may give: its documents (none
\* for a PDF without text).
ParseResults == Batches \cup {<<>>}

\* The module global vector_store before get_rag_components has run.
NoneStore == [store_type |-> "None", vector_store |-> NoIndex]

\* get_rag_components: the globals are created once; the new store tries
\* to load what is persisted and swallows a failure of that.
\* (pdf_processor and embedding_manager are created the same way and never
\* change afterwards.)
get_rag_components(g, d, fail) ==
    IF g = NoneStore
    THEN LET r == load_vector_store(NewVectorStore("faiss"), d, NoPath, fail)
         IN IF r.err # NoErr THEN NewVectorStore("faiss") ELSE r.self
    ELSE g

\* ------------------------------------------------------------- construction

\* The embedding types and store types a caller may name.
EmbeddingTypes == {"openai", "huggingface", "other"}
KeyNotFound == "OPENAI_API_KEY not found"

\* No embedding manager; an embedding manager of a type.
NoManager == [exists |-> FALSE, embedding_type |-> ""]
Manager(embedding_type) == [exists |-> TRUE, embedding_type |-> embedding_type]

\* A plausible slip: the hosted embeddings made without looking for the key.
initialize_embeddings_unchecked(embedding_type, key) ==
    IF embedding_type \in {"openai", "huggingface"}
    THEN NoErr
    ELSE Wrap("Error initializing embeddings", Raise("Unsupported embedding type"))

\* EmbeddingManager._initialize_embeddings
initialize_embeddings(embedding_type, key) ==
    IF embedding_type = "openai"
    THEN IF ~key
         THEN Wrap("Error initializing embeddings", Raise(KeyNotFound))
         ELSE NoErr
    ELSE IF embedding_type = "huggingface"
    THEN NoErr
    ELSE Wrap("Error initializing embeddings", Raise("Unsupported embedding type"))

\* EmbeddingManager.__init__: the manager, or the exception and no object.
EmbeddingManager(embedding_type, key) ==
    IF initialize_embeddings(embedding_type, key) # NoErr
    THEN [err |-> initialize_embeddings(embedding_type, key), obj |-> NoManager]
    ELSE [err |-> NoErr, obj |-> Manager(embedding_type)]

\* VectorStore.__init__ with its arguments: "embedding_manager or
\* EmbeddingManager()" makes the default, hosted, manager when none is given.
VectorStore(store_type, embedding_manager, key) ==
    LET em == IF embedding_manager.exists
              THEN [err |-> NoErr, obj |-> embedding_manager]
              ELSE EmbeddingManager("openai", key)
    IN IF em.err # NoErr
       THEN [err |-> em.err, obj |-> NoneStore, embedding_manager |-> NoManager]
       ELSE [err |-> NoErr, obj |-> NewVectorStore(store_type),
             embedding_manager |-> em.obj]

\* The chunking parameters a caller may give.
ChunkSizes == {-1, 0, 1, 2}
ChunkOverlaps == {-1, 0, 1, 2, 3}

\* RecursiveCharacterTextSplitter(chunk_size, chunk_overlap): the library
\* refuses an overlap larger than the chunk size; strict: the library is a
\* release that also refuses a chunk size below 1 and a negative overlap.
TextSplitter(chunk_size, chunk_overlap, strict) ==
    IF strict /\ chunk_size <= 0 THEN Raise("chunk_size must be > 0")
    ELSE IF strict /\ chunk_overlap < 0 THEN Raise("chunk_overlap must be >= 0")
    ELSE IF chunk_overlap > chunk_size
    THEN Raise("Got a larger chunk overlap than chunk size")
    ELSE NoErr

\* PDFProcessor.__init__: the parameters are stored and handed to the
\* splitter; nothing is checked here, and the splitter's exception
\* leaves unwrapped.
PDFProcessor(chunk_size, chunk_overlap, strict) ==
    [err |-> TextSplitter(chunk_size, chunk_overlap, strict),
     chunk_size |-> chunk_size, chunk_overlap |-> chunk_overlap]

\* An HTTP response: the endpoint, the status code, the detail of an error
\* response (the wrapped message chain) and the fields of the body.
Response(ep, code, detail) ==
    [ep |-> ep, code |-> code, detail |-> detail, filename |-> <<>>,
     n |-> 0, docs |-> <<>>, pairs |-> <<>>, answer |-> "", chat_history |-> <<>>]
OK == 200
BadRequest == 400
ServerError == 500

\* What a handler leaves behind: the globals, the disk and its response;
\* asked is the question text it handed to the chain, if it got that far.
Handled(vs, chain, d, r) ==
    [vector_store |-> vs, rag_chain |-> chain, disk |-> d, resp |-> r,
     asked |-> PlainQuestion("")]

\* upload_pdf up to its file read, for a name that is not a PDF's: the
\* HTTPException(400) raised by the validation is caught by the handler's
\* own "except Exception" and raised again as a 500.
upload_pdf_rejected(name) ==
    [Response("upload", ServerError,
              Wrap("Error processing file", Raise("400: Only PDF files are allowed")))
        EXCEPT !.filename = name]

ParseOutcomes ==
    {[ok |-> FALSE, docs |-> <<>>]} \cup {[ok |-> TRUE, docs |-> b] : b \in ParseResults}

\* upload_pdf after its file read: parse and chunk, insert, persist.  The
\* temporary file is removed on every path.
upload_pdf(vs, chain, d, name, parsed, failAdd, failSave) ==
    IF ~parsed.ok
    THEN Handled(vs, chain, d,
                 [Response("upload", ServerError,
                           Wrap("Error processing file",
                                Wrap("Error processing PDF to documents",
                                     Raise("Error extracting text from PDF"))))
                     EXCEPT !.filename = name])
    ELSE LET a == add_documents(vs, d, parsed.docs, failAdd)
             sv == save_vector_store(a.self, a.disk, NoPath, failSave)
         IN IF a.err # NoErr
            THEN Handled(vs, chain, d,
                         [Response("upload", ServerError,
                                   Wrap("Error processing file", a.err))
                             EXCEPT !.filename = name])
            ELSE IF sv.err # NoErr
            THEN Handled(a.self, chain, a.disk,
                         [Response("upload", ServerError,
                                   Wrap("Error processing file", sv.err))
                             EXCEPT !.filename = name])
            ELSE Handled(sv.self, chain, sv.disk,
                         [Response("upload", OK, NoErr)
                             EXCEPT !.filename = name, !.n = Len(parsed.docs)])

\* The chain a question handler works with: the global one, or a new one
\* that becomes the global one if its construction succeeds.
ChainFor(vs, chain, key) ==
    IF ~chain.exists THEN RAGChain(vs, key) ELSE ChainResult(chain, NoErr)

\* query_documents
query_documents(vs, chain, d, key, question, k, fail, answer) ==
    LET made == ChainFor(vs, chain, key)
        r == query(made.chain, vs, d, PlainQuestion(question), k, fail, answer)
    IN IF made.err # NoErr
       THEN Handled(vs, chain, d,
                    Response("query", ServerError,
                             Wrap("Error querying documents", made.err)))
       ELSE IF r.err # NoErr
       THEN Handled(vs, r.chain, d,
                    Response("query", ServerError,
                             Wrap("Error querying documents", r.err)))
       ELSE [Handled(vs, r.chain, d,
                     [Response("query", OK, NoErr)
                         EXCEPT !.answer = r.answer, !.docs = r.source_documents])
                EXCEPT !.asked = r.prompt.question]

\* A plausible slip: the handler not passing the request's history on.
HistoryOrEmpty_dropped(chat_history) == History(<<>>)
\* request.chat_history or []
HistoryOrEmpty(chat_history) == History(chat_history.turns)

\* chat_with_documents
chat_with_documents(vs, chain, d, key, question, chat_history, fail, answer) ==
    LET made == ChainFor(vs, chain, key)
        r == chat_with_history(made.chain, vs, d, question,
                               HistoryOrEmpty(chat_history), fail, answer)
    IN IF made.err # NoErr
       THEN Handled(vs, chain, d,
                    Response("chat", ServerError, Wrap("Error in chat", made.err)))
       ELSE IF r.err # NoErr
       THEN Handled(vs, r.chain, d,
                    Response("chat", ServerError, Wrap("Error in chat", r.err)))
       ELSE [Handled(vs, r.chain, d,
                     [Response("chat", OK, NoErr)
                         EXCEPT !.answer = r.answer, !.docs = r.source_documents,
                                !.chat_history = r.chat_history.turns])
                EXCEPT !.asked = r.prompt.question]

\* EmbeddingManager.get_model_info, whose dimension embeds a test query.
get_model_info(fail) ==
    IF fail
    THEN Wrap("Error getting embedding dimension",
              Wrap("Error embedding query", Raise(ProviderFailure)))
    ELSE NoErr

\* get_status
get_status(vs, chain, d, fail) ==
    IF get_model_info(fail) # NoErr
    THEN Handled(vs, chain, d,
                 Response("status", ServerError,
                          Wrap("Error getting status", get_model_info(fail))))
    ELSE Handled(vs, chain, d,
                 [Response("status", OK, NoErr) EXCEPT !.n = get_document_count(vs, d)])

\* list_documents
list_documents(vs, chain, d, fail) ==
    IF get_model_info(fail) # NoErr
    THEN Handled(vs, chain, d,
                 Response("documents", ServerError,
                          Wrap("Error listing documents", get_model_info(fail))))
    ELSE Handled(vs, chain, d,
                 [Response("documents", OK, NoErr)
                     EXCEPT !.n = get_store_info(vs, d).document_count])

\* A plausible slip: the clear that leaves the global chain in place.
clear_documents_keeping_chain(vs, chain, d, fail) ==
    LET r == delete_vector_store(vs, d, fail)
    IN IF r.err # NoErr
       THEN Handled(vs, chain, d,
                    Response("clear", ServerError,
                             Wrap("Error clearing documents", r.err)))
       ELSE Handled(r.self, chain, r.disk, Response("clear", OK, NoErr))

\* clear_documents
clear_documents(vs, chain, d, fail) ==
    LET r == delete_vector_store(vs, d, fail)
    IN IF r.err # NoErr
       THEN Handled(vs, chain, d,
                    Response("clear", ServerError,
                             Wrap("Error clearing documents", r.err)))
       ELSE Handled(r.self, NoChain, r.disk, Response("clear", OK, NoErr))

\* A plausible slip: /similar making the chain first, as /query and /chat do.
find_similar_documents_via_chain(vs, chain, d, q, k, fail) ==
    LET made == ChainFor(vs, chain, TRUE)
        r == similarity_search_with_score(vs, d, q, k, fail)
    IN IF made.err # NoErr \/ r.err # NoErr
       THEN Handled(vs, chain, d,
                    Response("similar", ServerError,
                             Wrap("Error finding similar documents",
                                  IF made.err # NoErr THEN made.err ELSE r.err)))
       ELSE Handled(vs, made.chain, d,
                    [Response("similar", OK, NoErr) EXCEPT !.pairs = r.pairs])

\* find_similar_documents
find_similar_documents(vs, chain, d, q, k, fail) ==
    LET r == similarity_search_with_score(vs, d, q, k, fail)
    IN IF r.err # NoErr
       THEN Handled(vs, chain, d,
                    Response("similar", ServerError,
                             Wrap("Error finding similar documents", r.err)))
       ELSE Handled(vs, chain, d,
                    [Response("similar", OK, NoErr) EXCEPT !.pairs = r.pairs])

\* ------------------------------------------------------------------ utils

\* text[:stop], as Python slices: a negative stop counts from the end.
SliceTo(text, stop) ==
    IF stop < 0 THEN SubSeq(text, 1, Max(Len(text) + stop, 0))
    ELSE SubSeq(text, 1, Min(stop, Len(text)))

Ellipsis == <<".", ".", ".">>

\* truncate_text
truncate_text(text, max_length) ==
    IF Len(text) <= max_length THEN text
    ELSE SliceTo(text, max_length - 3) \o Ellipsis

\* ----------------------------------------------------------------- Config

\* A value of a dictionary: a scalar, or a reference to a dictionary
\* object (the inner dictionaries of DEFAULT_CONFIG are objects of their
\* own, named here by the key they are stored under).
Scalar(v) == [is_dict |-> FALSE, v |-> v, ref |-> ""]
Ref(name) == [is_dict |-> TRUE, v |-> 0, ref |-> name]

\* DEFAULT_CONFIG: its top level, and the inner dictionaries it refers to
\* as the module defines them.
DEFAULT_CONFIG == [pdf_processing |-> Ref("pdf_processing"), llm |-> Ref("llm")]
DefaultObjects ==
    [pdf_processing |-> [chunk_size |-> 1000, chunk_overlap |-> 200],
     llm |-> [max_tokens |-> 1000]]

\* The override dictionaries a caller gives, as their items in order.
Overrides ==
    {<<>>,
     <<(<<"pdf_processing", [chunk_size |-> 500]>>)>>,
     <<(<<"llm", [max_tokens |-> 50]>>)>>,
     <<(<<"custom", [x |-> 1]>>)>>,
     <<(<<"pdf_processing", [chunk_overlap |-> 0]>>), (<<"custom", [x |-> 1]>>)>>}

\* dict.update
DictUpdate(d, value) == value @@ d

\* Config._update_config over the items: a key that holds a dictionary has
\* that dictionary object updated in place; any other key is assigned in
\* the instance's own top level.  c: the instance's top level and the
\* dictionary objects.
RECURSIVE update_config(_, _)
update_config(c, items) ==
    IF items = <<>> THEN c
    ELSE LET key == Head(items)[1]
             value == Head(items)[2]
         IN update_config(
                IF key \in DOMAIN c.config /\ c.config[key].is_dict
                THEN [c EXCEPT !.objects[c.config[key].ref] = DictUpdate(@, value)]
                ELSE [c EXCEPT !.config = (key :> Scalar(value)) @@ @],
                Tail(items))

\* Config.__init__: DEFAULT_CONFIG.copy() copies the top level only.
Config(objects, config_dict) ==
    update_config([config |-> DEFAULT_CONFIG, objects |-> objects], config_dict)

\* Config.get on a dotted key of one or two parts.
ConfigGet(config, objects, keys, default) ==
    IF keys[1] \notin DOMAIN config THEN default
    ELSE IF Len(keys) = 1 THEN config[keys[1]]
    ELSE IF config[keys[1]].is_dict /\ keys[2] \in DOMAIN objects[config[keys[1]].ref]
    THEN Scalar(objects[config[keys[1]].ref][keys[2]])
    ELSE default

\* Config.get_pdf_config, get_llm_config
get_pdf_config(config, objects) == objects[config["pdf_processing"].ref]
get_llm_config(config, objects) == objects[config["llm"].ref]

\* ------------------------------------------------------------ the Streamlit UI

\* An uploaded file: its name, whether parsing it returns (ok) or raises,
\* and the documents chunking its text gives.
UiFile(name, ok, docs) == [name |-> name, parsed |-> [ok |-> ok, docs |-> docs]]
GoodFile1 == UiFile("f1", TRUE, <<"a">>)
GoodFile2 == UiFile("f2", TRUE, <<"b">>)
BadFile == UiFile("bad", FALSE, <<"c">>)
\* The batches selected in the uploader.
UiBatches ==
    {<<GoodFile1>>, <<BadFile>>, <<BadFile, GoodFile2>>, <<GoodFile1, BadFile>>,
     <<GoodFile1, GoodFile2>>}

\* setup_rag_system: the manager, the store and the load in one try; any
\* exception gives (None, None).
setup_rag_system(embedding_type, vector_store_type, d, key, failLoad) ==
    LET em == EmbeddingManager(embedding_type, key)
        v == VectorStore(vector_store_type, em.obj, key)
        l == load_vector_store(v.obj, d, NoPath, failLoad)
        err == IF em.err # NoErr THEN em.err ELSE l.err
    IN IF err # NoErr
       THEN [err |-> Wrap("Error setting up RAG system", err),
             embedding_manager |-> NoManager, vector_store |-> NoneStore]
       ELSE [err |-> NoErr, embedding_manager |-> em.obj, vector_store |-> l.self]

\* A plausible slip: the file counted before it is known to parse.
FileResult_unguarded(file) == <<file>>
\* The try of the loop body: the file when process_pdf_to_documents
\* returns, nothing when it raises (the exception is reported).
FileResult(file) == IF file.parsed.ok THEN <<file>> ELSE <<>>

\* The loop of process_uploaded_files: the files that parse, in order.
RECURSIVE ParsedFiles(_)
ParsedFiles(files) ==
    IF files = <<>> THEN <<>>
    ELSE FileResult(Head(files)) \o ParsedFiles(Tail(files))

\* The temporary file of one file after the loop body: NamedTemporaryFile(
\* delete=False) makes it, os.unlink removes it after the parse, and the
\* except clause of a parse that raised does not.
TempFileLeft(file) == IF file.parsed.ok THEN <<>> ELSE <<file.name>>

\* The temporary files the loop leaves behind.
RECURSIVE TempFilesLeft(_)
TempFilesLeft(files) ==
    IF files = <<>> THEN <<>>
    ELSE TempFileLeft(Head(files)) \o TempFilesLeft(Tail(files))

\* processed_docs.extend(documents) over the files that parse
RECURSIVE ProcessedDocs(_)
ProcessedDocs(parsed) ==
    IF parsed = <<>> THEN <<>>
    ELSE Head(parsed).parsed.docs \o ProcessedDocs(Tail(parsed))

\* st.session_state.processed_files.append({...}) for each file that parses
FileRecords(parsed) == [i \in 1..Len(parsed) |-> parsed[i].name]

\* process_uploaded_files: True when documents were added and saved.
process_uploaded_files(uploaded_files, vs, d, processed_files, failAdd, failSave) ==
    LET parsed == ParsedFiles(uploaded_files)
        processed_docs == ProcessedDocs(parsed)
        records == processed_files \o FileRecords(parsed)
        a == add_documents(vs, d, processed_docs, failAdd)
        sv == save_vector_store(a.self, a.disk, NoPath, failSave)
    IN IF processed_docs = <<>>
       THEN [vector_store |-> vs, disk |-> d, processed_files |-> records,
             success |-> FALSE, err |-> NoErr]
       ELSE IF a.err # NoErr
       THEN [vector_store |-> vs, disk |-> d, processed_files |-> records,
             success |-> FALSE,
             err |-> Wrap("Error adding documents to vector store", a.err)]
       ELSE IF sv.err # NoErr
       THEN [vector_store |-> a.self, disk |-> a.disk, processed_files |-> records,
             success |-> FALSE,
             err |-> Wrap("Error adding documents to vector store", sv.err)]
       ELSE [vector_store |-> sv.self, disk |-> sv.disk, processed_files |-> records,
             success |-> TRUE, err |-> NoErr]

\* The chat tab of a script run: with files processed, a store and no
\* chain yet, the chain is made unless the hosted embeddings are selected
\* without a key; an exception is reported.
chat_tab_chain(u, key, embedding_type) ==
    IF u.processed_files # <<>> /\ ~u.rag_chain.exists /\ u.vector_store # NoneStore
       /\ ~(embedding_type = "openai" /\ ~key)
    THEN RAGChain(u.vector_store, key).chain
    ELSE u.rag_chain

\* ------------------------------------------------------------------ state

VARIABLES
    self,     \* SpecVS: the VectorStore object under test
    disk,     \* what is persisted: outlives objects and processes
    last,     \* SpecVS: the last method call, its arguments and its outcome
    cleared,  \* history: the index was cleared and nothing was inserted since
              \* (Spec: DELETE /documents succeeded in this process and no
              \* upload has succeeded since)
    saved,    \* history: the last successful save with no write after it
    vector_store,  \* Spec: the module global vector_store of src/api.py
    rag_chain,     \* Spec: the module global rag_chain
    api_key,       \* Spec: whether OPENAI_API_KEY is set in the environment
    up,            \* Spec: each upload request: idle, or suspended at its file read
    resp,          \* Spec: the last response sent
    chat,          \* SpecChat: the last chat call, what it was given and what it gave
    req,           \* SpecReq: the question request in flight, stage by stage
    ui,            \* SpecUI: the session state of the Streamlit front end
    built,         \* SpecConfig: the components constructed last
    conc,          \* SpecConc: the requests in flight and the objects they share
    calc           \* SpecUtil: the last call of a helper and what it returned

vsVars == <<self, last, saved>>
apiVars == <<vector_store, rag_chain, api_key, up, resp>>
otherVars == <<req, ui, built, conc, calc>>
vars == <<self, disk, last, cleared, saved, vector_store, rag_chain, api_key, up, resp,
          chat, req, ui, built, conc, calc>>

NoChat ==
    [via |-> "", question |-> "", given |-> NoneHistory, generated |-> "",
     err |-> NoErr, answer |-> "", chat_history |-> <<>>,
     asked |-> PlainQuestion("")]

\* The stages of a question request.
Pipeline == <<"RECEIVED", "EMBEDDED", "RETRIEVED", "PROMPTED", "GENERATED">>
Terminal == {"DONE", "FAILED"}

\* No request yet.  ep: the endpoint; given: the chat_history of the
\* request and turns: the list the handler passes on; stages: the stages
\* gone through; chain_calls, llm_calls: the calls of the retrieval-QA
\* chain and of the model made for this request; failed_from: the stage a
\* failure left.
NoReq ==
    [ep |-> "", question |-> "", k |-> DefaultK, given |-> NoneHistory, turns |-> <<>>,
     stage |-> "IDLE", stages |-> <<>>, chain_calls |-> 0, llm_calls |-> 0,
     failed_from |-> "", answer |-> ""]
\* initialize_session_state; last: what the last script run did
\* (embedding_type: the selection "Proses File" ran with).
NoRun ==
    [op |-> "", embedding_type |-> "", files |-> <<>>, setup |-> FALSE,
     setup_err |-> NoErr, held |-> <<>>, tmp_left |-> <<>>, success |-> FALSE,
     err |-> NoErr, generated |-> FALSE]
NoUI ==
    [vector_store |-> NoneStore, embedding_manager |-> NoManager, rag_chain |-> NoChain,
     processed_files |-> <<>>, chat_history |-> <<>>, last |-> NoRun]
NoBuilt ==
    [what |-> "", hosted |-> FALSE, key |-> FALSE, err |-> NoErr, usable |-> FALSE,
     manager |-> NoManager, store |-> NoneStore, chain |-> NoChain,
     chunk_size |-> 0, chunk_overlap |-> 0]

\* The two upload requests dispatched together, and where each one is:
\* idle, suspended at its file read, or answered (with its status code
\* and the chunks it reported).
ConcRequests == {"r1", "r2"}
ConcIdle == [pc |-> "idle", code |-> 0, chunks |-> 0]
\* No request in flight, no index object and no chain yet.  index_id: the
\* identity of the index object the store holds (0: None); bound_id: that
\* of the object the chain's retriever was made from; bound_docs: what
\* that object holds once the store holds another; base: the count when
\* the two uploads started; cleared_since: a DELETE ran since then.
NoConc ==
    [up |-> [r \in ConcRequests |-> ConcIdle], index_id |-> 0, bound_id |-> 0,
     bound_docs |-> <<>>, base |-> 0, cleared_since |-> FALSE,
     last |-> [ep |-> "", code |-> 0, question |-> "", k |-> 0, docs |-> <<>>]]
\* No helper called yet; the module config.py as it is after import:
\* objects: the inner dictionaries of DEFAULT_CONFIG; instances: the top
\* levels of the Config instances made besides the module-level one.
NoCalc ==
    [op |-> "", text |-> <<>>, max_length |-> 0, result |-> <<>>,
     objects |-> DefaultObjects, instances |-> <<>>, config_dict |-> <<>>]

\* The variables of the other specifications while they are not driven.
OthersIdle ==
    /\ req = NoReq
    /\ ui = NoUI
    /\ built = NoBuilt
    /\ conc = NoConc
    /\ calc = NoCalc

NoSaved == [valid |-> FALSE, path |-> NoPath, entries |-> <<>>]

\* ----------------------------------------------- SpecVS: one VectorStore object

Call(op, arg, k, fail, r) ==
    [op |-> op, arg |-> arg, k |-> k, fail |-> fail, was_init |-> self.vector_store.init,
     err |-> r.err, docs |-> r.docs, pairs |-> r.pairs, n |-> r.n]

InsertOps == {"create_vector_store", "add_documents"}
WriteOps == InsertOps \cup {"delete_vector_store"}

Apply(op, arg, k, fail, r) ==
    /\ self' = r.self
    /\ disk' = r.disk
    /\ last' = Call(op, arg, k, fail, r)
    /\ cleared' = IF r.err # NoErr THEN cleared
                  ELSE IF op = "delete_vector_store" THEN TRUE
                  ELSE IF op \in InsertOps THEN FALSE
                  ELSE cleared
    /\ saved' = IF r.err # NoErr THEN saved
                ELSE IF op = "save_vector_store"
                     THEN [valid |-> TRUE, path |-> arg, entries |-> Entries(self, disk)]
                ELSE IF op \in WriteOps THEN NoSaved
                ELSE saved
    /\ UNCHANGED <<apiVars, chat, otherVars>>

\* The upload requests in flight, and where each one is.
Requests == {"r1"}
Idle == [pc |-> "idle", filename |-> <<>>]
Reading(name) == [pc |-> "reading", filename |-> name]

\* The API variables while no API process is modelled.
ApiIdle ==
    /\ vector_store = NoneStore
    /\ rag_chain = NoChain
    /\ api_key = FALSE
    /\ up = [r \in Requests |-> Idle]
    /\ resp = Response("", 0, NoErr)
    /\ chat = NoChat
    /\ OthersIdle

\* An insert the model follows: the index stays within MaxEntries.
Fits(s, d, documents) ==
    LET held == IF s.store_type = "chroma" THEN Len(d.chroma) ELSE Len(Entries(s, d))
    IN held + Len(documents) <= MaxEntries

InitVS ==
    /\ \E t \in StoreTypes : self = NewVectorStore(t)
    /\ disk = EmptyDisk
    /\ last = Call("__init__", "", 0, FALSE, Outcome(self, disk, NoErr, <<>>, 0))
    /\ cleared = FALSE
    /\ saved = NoSaved
    /\ ApiIdle

\* A fresh VectorStore of the same backend on the same persist directory
\* (another object, or the next process).
VSNew ==
    Apply("__init__", "", 0, FALSE,
          Outcome(NewVectorStore(self.store_type), disk, NoErr, <<>>, 0))

VSCreate ==
    \E documents \in Batches, fail \in BOOLEAN :
        /\ Len(documents) <= MaxEntries
        /\ self.store_type = "chroma" => Fits(self, disk, documents)
        /\ Apply("create_vector_store", documents, 0, fail,
                 create_vector_store(self, disk, documents, fail))

VSAdd ==
    \E documents \in Batches, fail \in BOOLEAN :
        /\ Fits(self, disk, documents)
        /\ Apply("add_documents", documents, 0, fail,
                 add_documents(self, disk, documents, fail))

VSSearch ==
    \E q \in Queries, k \in KValues, fail \in BOOLEAN :
        Apply("similarity_search", q, k, fail,
              similarity_search(self, disk, q, k, fail))

VSSearchWithScore ==
    \E q \in Queries, k \in KValues, fail \in BOOLEAN :
        Apply("similarity_search_with_score", q, k, fail,
              similarity_search_with_score(self, disk, q, k, fail))

VSSave ==
    \E path \in PathArgs, fail \in BOOLEAN :
        Apply("save_vector_store", path, 0, fail,
              save_vector_store(self, disk, path, fail))

VSLoad ==
    \E path \in PathArgs, fail \in BOOLEAN :
        Apply("load_vector_store", path, 0, fail,
              load_vector_store(self, disk, path, fail))

VSDelete ==
    \E fail \in BOOLEAN :
        Apply("delete_vector_store", "", 0, fail,
              delete_vector_store(self, disk, fail))

VSCount ==
    Apply("get_document_count", "", 0, FALSE,
          Outcome(self, disk, NoErr, <<>>, get_document_count(self, disk)))

VSInfo ==
    Apply("get_store_info", "", 0, FALSE,
          Outcome(self, disk, NoErr, <<>>, get_store_info(self, disk).document_count))

NextVS ==
    \/ VSNew
    \/ VSCreate
    \/ VSAdd
    \/ VSSearch
    \/ VSSearchWithScore
    \/ VSSave
    \/ VSLoad
    \/ VSDelete
    \/ VSCount
    \/ VSInfo

SpecVS == InitVS /\ [][NextVS]_vars

\* ------------------------------------------------------ Spec: the API process

\* The histories a /chat request carries.
ApiHistories == {NoneHistory, History(<<>>), History(<<Turn("a", "x")>>)}

\* The SpecVS variables while no single object is driven.
VSIdle ==
    /\ self = NewVectorStore("faiss")
    /\ last = Call("__init__", "", 0, FALSE, Outcome(self, EmptyDisk, NoErr, <<>>, 0))
    /\ saved = NoSaved

\* The process has started: startup_event has run get_rag_components on an
\* empty persist directory.
Init ==
    /\ disk = EmptyDisk
    /\ cleared = FALSE
    /\ VSIdle
    /\ vector_store = get_rag_components(NoneStore, EmptyDisk, FALSE)
    /\ rag_chain = NoChain
    /\ api_key \in BOOLEAN
    /\ up = [r \in Requests |-> Idle]
    /\ resp = Response("startup", 0, NoErr)
    /\ chat = NoChat
    /\ OthersIdle

\* A handler ran to its response: every handler first runs the dependency
\* get_rag_components.
Respond(h) ==
    /\ vector_store' = h.vector_store
    /\ rag_chain' = h.rag_chain
    /\ disk' = h.disk
    /\ resp' = h.resp
    /\ UNCHANGED <<vsVars, api_key, chat, otherVars>>

Deps == get_rag_components(vector_store, disk, FALSE)

\* POST /upload, to the validation's rejection or to the suspension at
\* "await file.read()".
UploadBegin ==
    \E r \in Requests, name \in Filenames :
        /\ up[r].pc = "idle"
        /\ IF ~IsPdfName(name)
           THEN /\ Respond(Handled(Deps, rag_chain, disk, upload_pdf_rejected(name)))
                /\ UNCHANGED up
           ELSE /\ up' = [up EXCEPT ![r] = Reading(name)]
                /\ vector_store' = Deps
                /\ UNCHANGED <<vsVars, api_key, rag_chain, disk, resp, chat, otherVars>>
        /\ UNCHANGED cleared

\* POST /upload, from the file read to the response.
UploadFinish ==
    \E r \in Requests, parsed \in ParseOutcomes, failAdd \in BOOLEAN, failSave \in BOOLEAN :
        /\ up[r].pc = "reading"
        /\ Fits(vector_store, disk, parsed.docs)
        /\ LET h == upload_pdf(vector_store, rag_chain, disk, up[r].filename,
                               parsed, failAdd, failSave)
           IN /\ Respond(h)
              /\ cleared' = IF h.resp.code = OK THEN FALSE ELSE cleared
        /\ up' = [up EXCEPT ![r] = Idle]

\* POST /query
Query ==
    \E question \in Queries, k \in KValues, fail \in BOOLEAN, answer \in Answers :
        /\ Respond(query_documents(Deps, rag_chain, disk, api_key, question, k, fail, answer))
        /\ UNCHANGED <<up, cleared>>

\* POST /chat
Chat ==
    \E question \in Queries, h \in ApiHistories, fail \in BOOLEAN, answer \in Answers :
        /\ Respond(chat_with_documents(Deps, rag_chain, disk, api_key, question, h,
                                       fail, answer))
        /\ UNCHANGED <<up, cleared>>

\* GET /status
Status ==
    \E fail \in BOOLEAN :
        /\ Respond(get_status(Deps, rag_chain, disk, fail))
        /\ UNCHANGED <<up, cleared>>

\* GET /documents
ListDocuments ==
    \E fail \in BOOLEAN :
        /\ Respond(list_documents(Deps, rag_chain, disk, fail))
        /\ UNCHANGED <<up, cleared>>

\* DELETE /documents
ClearDocuments ==
    \E fail \in BOOLEAN :
        LET h == clear_documents(Deps, rag_chain, disk, fail)
        IN /\ Respond(h)
           /\ cleared' = IF h.resp.code = OK THEN TRUE ELSE cleared
           /\ UNCHANGED up

\* GET /similar
Similar ==
    \E q \in Queries, k \in KValues, fail \in BOOLEAN :
        /\ Respond(find_similar_documents(Deps, rag_chain, disk, q, k, fail))
        /\ UNCHANGED <<up, cleared>>

\* The process ends and a new one starts on the same persist directory:
\* the globals are None again, startup_event runs get_rag_components, the
\* requests in flight are gone.
Restart ==
    \E fail \in BOOLEAN :
        /\ vector_store' = get_rag_components(NoneStore, disk, fail)
        /\ rag_chain' = NoChain
        /\ up' = [r \in Requests |-> Idle]
        /\ resp' = Response("startup", 0, NoErr)
        /\ cleared' = FALSE
        /\ UNCHANGED <<vsVars, api_key, disk, chat, otherVars>>

Next ==
    \/ UploadBegin
    \/ UploadFinish
    \/ Query
    \/ Chat
    \/ Status
    \/ ListDocuments
    \/ ClearDocuments
    \/ Similar
    \/ Restart

Spec == Init /\ [][Next]_vars

\* ------------------------------------------------ SpecChat: chat_with_history

\* The turns of a supplied history, and the histories: every list of at
\* most MaxHistory turns, and None.
Turns == {Turn("a", "x"), Turn("b", "y")}
ChatHistories ==
    {NoneHistory} \cup
    {History(t) : t \in UNION {[1..n -> Turns] : n \in 0..MaxHistory}}

\* An API process whose index holds documents and whose environment has
\* the key: every chat gets as far as generation.
InitChat ==
    /\ disk = EmptyDisk
    /\ cleared = FALSE
    /\ VSIdle
    /\ vector_store = [NewVectorStore("faiss") EXCEPT
                          !.vector_store = FaissIndex(<<"a", "b">>)]
    /\ rag_chain = NoChain
    /\ api_key = TRUE
    /\ up = [r \in Requests |-> Idle]
    /\ resp = Response("startup", 0, NoErr)
    /\ chat = NoChat
    /\ OthersIdle

\* RAGChain.chat_with_history called on the process's chain.
ChatMethod ==
    \E question \in Queries, h \in ChatHistories, fail \in BOOLEAN, answer \in Answers :
        LET made == ChainFor(vector_store, rag_chain, api_key)
            r == chat_with_history(made.chain, vector_store, disk, question, h,
                                   fail, answer)
        IN /\ rag_chain' = r.chain
           /\ chat' = [via |-> "chat_with_history", question |-> question, given |-> h,
                       generated |-> answer, err |-> r.err, answer |-> r.answer,
                       chat_history |-> r.chat_history.turns, asked |-> r.prompt.question]
           /\ UNCHANGED <<vsVars, disk, cleared, vector_store, api_key, up, resp, otherVars>>

\* POST /chat with a history of any length; the response is kept in chat.
ChatRequest ==
    \E question \in Queries, h \in ChatHistories, fail \in BOOLEAN, answer \in Answers :
        LET r == chat_with_documents(Deps, rag_chain, disk, api_key, question, h,
                                     fail, answer)
        IN /\ rag_chain' = r.rag_chain
           /\ chat' = [via |-> "/chat", question |-> question, given |-> h,
                       generated |-> answer, err |-> r.resp.detail,
                       answer |-> r.resp.answer,
                       chat_history |-> r.resp.chat_history,
                       asked |-> r.asked]
           /\ UNCHANGED <<vsVars, disk, cleared, vector_store, api_key, up, resp, otherVars>>

NextChat ==
    \/ ChatMethod
    \/ ChatRequest

SpecChat == InitChat /\ [][NextChat]_vars

\* ------------------------------------------- SpecReq: one question request

\* The API process with an empty or a populated index, and no request yet.
InitReq ==
    /\ disk = EmptyDisk
    /\ cleared = FALSE
    /\ VSIdle
    /\ \E docs \in {<<>>, <<"a", "b">>} :
           vector_store = IF docs = <<>> THEN NewVectorStore("faiss")
                          ELSE [NewVectorStore("faiss") EXCEPT
                                   !.vector_store = FaissIndex(docs)]
    /\ rag_chain = NoChain
    /\ api_key \in BOOLEAN
    /\ up = [r \in Requests |-> Idle]
    /\ resp = Response("startup", 0, NoErr)
    /\ chat = NoChat
    /\ OthersIdle

reqFrame == <<vsVars, disk, cleared, vector_store, api_key, up, chat, ui, built, conc, calc>>

\* The context a handler's "except Exception" puts before the message.
HandlerContext(ep) == IF ep = "query" THEN "Error querying documents" ELSE "Error in chat"
ResponseFailure == "response failure"

\* The handler of the request in flight, run to its response.
RequestHandler(fail, answer) ==
    IF req.ep = "query"
    THEN query_documents(Deps, rag_chain, disk, api_key, req.question, req.k,
                         fail, answer)
    ELSE chat_with_documents(Deps, rag_chain, disk, api_key, req.question, req.given,
                             fail, answer)

\* A plausible slip: a failed step answered by starting the request over.
Failed_retrying(h, r) ==
    /\ req' = [r EXCEPT !.stage = "RECEIVED", !.stages = Append(@, "RECEIVED")]
    /\ UNCHANGED resp

\* The request ends with the failure response of its handler; r is the
\* request as the failing step leaves it.
Failed(h, r) ==
    /\ req' = [r EXCEPT !.stage = "FAILED", !.stages = Append(@, "FAILED"),
                        !.failed_from = req.stage]
    /\ resp' = h.resp

\* A plausible slip: an answer given without the retrieval.
Reached_skipping(stage) ==
    IF stage = "EMBEDDED"
    THEN [req EXCEPT !.stage = "RETRIEVED", !.stages = Append(@, "RETRIEVED")]
    ELSE [req EXCEPT !.stage = stage, !.stages = Append(@, stage)]

\* The request moves on to the next stage.
Reached(stage) == [req EXCEPT !.stage = stage, !.stages = Append(@, stage)]

\* POST /query or POST /chat arrives; no other handler runs until this one
\* has answered (the handlers do not await).
Receive ==
    \E ep \in {"query", "chat"}, question \in Queries, k \in KValues,
       h \in ApiHistories :
        /\ req.stage \in {"IDLE"} \cup Terminal
        /\ req' = [NoReq EXCEPT !.ep = ep, !.question = question,
                                !.k = IF ep = "query" THEN k ELSE DefaultK,
                                !.given = IF ep = "chat" THEN h ELSE NoneHistory,
                                !.turns = IF ep = "chat" THEN HistoryOrEmpty(h).turns
                                          ELSE <<>>,
                                !.stage = "RECEIVED", !.stages = <<"RECEIVED">>]
        /\ UNCHANGED <<reqFrame, rag_chain, resp>>

\* The handler makes the chain if there is none, query() sets k and calls
\* the retrieval-QA chain, which first embeds the question.
Embed ==
    /\ req.stage = "RECEIVED"
    /\ LET made == ChainFor(Deps, rag_chain, api_key)
       IN IF made.err # NoErr
          THEN /\ Failed(RequestHandler(FALSE, ""), req)
               /\ UNCHANGED <<reqFrame, rag_chain>>
          ELSE \E fail \in BOOLEAN :
                  /\ rag_chain' = [made.chain EXCEPT !.k = req.k]
                  /\ IF fail
                     THEN Failed(RequestHandler(TRUE, ""),
                                 [req EXCEPT !.chain_calls = @ + 1])
                     ELSE /\ req' = [Reached("EMBEDDED") EXCEPT !.chain_calls = @ + 1]
                          /\ UNCHANGED resp
                  /\ UNCHANGED reqFrame

\* The retriever searches the index with the embedded question.
Retrieve ==
    /\ req.stage = "EMBEDDED"
    /\ \E fail \in BOOLEAN :
          IF fail THEN Failed(RequestHandler(TRUE, ""), req)
          ELSE req' = Reached("RETRIEVED") /\ UNCHANGED resp
    /\ UNCHANGED <<reqFrame, rag_chain>>

\* The "stuff" chain fills the prompt with the retrieved documents and the
\* question.
Prompt ==
    /\ req.stage = "RETRIEVED"
    /\ \E fail \in BOOLEAN :
          IF fail THEN Failed(RequestHandler(TRUE, ""), req)
          ELSE req' = Reached("PROMPTED") /\ UNCHANGED resp
    /\ UNCHANGED <<reqFrame, rag_chain>>

\* The model is called with the prompt; when it answers, the chain and
\* query() return, and chat_with_history appends the new turn.
Generate ==
    /\ req.stage = "PROMPTED"
    /\ \E fail \in BOOLEAN, answer \in Answers :
          IF fail
          THEN Failed(RequestHandler(TRUE, ""), [req EXCEPT !.llm_calls = @ + 1])
          ELSE /\ req' = [Reached("GENERATED") EXCEPT
                             !.llm_calls = @ + 1, !.answer = answer,
                             !.turns = IF req.ep = "chat"
                                       THEN Append(@, Turn(req.question, answer))
                                       ELSE @]
               /\ UNCHANGED resp
    /\ UNCHANGED <<reqFrame, rag_chain>>

\* The handler formats the sources and answers; an exception here is
\* caught by the same "except Exception".
Finish ==
    /\ req.stage = "GENERATED"
    /\ \E fail \in BOOLEAN :
          IF fail
          THEN Failed([resp |-> Response(req.ep, ServerError,
                                         Wrap(HandlerContext(req.ep),
                                              Raise(ResponseFailure)))], req)
          ELSE /\ req' = Reached("DONE")
               /\ resp' = RequestHandler(FALSE, req.answer).resp
    /\ UNCHANGED <<reqFrame, rag_chain>>

RequestStep ==
    \/ Embed
    \/ Retrieve
    \/ Prompt
    \/ Generate
    \/ Finish

NextReq ==
    \/ Receive
    \/ RequestStep

SpecReq == InitReq /\ [][NextReq]_vars

\* A handler that has started runs on: each call it makes returns or raises.
SpecReqLive == SpecReq /\ WF_vars(RequestStep)

\* --------------------------------------- SpecConfig: constructing components

\* A process with or without the key in its environment; the key may be
\* set or unset between constructions.
InitConfig ==
    /\ disk = EmptyDisk
    /\ cleared = FALSE
    /\ VSIdle
    /\ vector_store = NoneStore
    /\ rag_chain = NoChain
    /\ api_key \in BOOLEAN
    /\ up = [r \in Requests |-> Idle]
    /\ resp = Response("", 0, NoErr)
    /\ chat = NoChat
    /\ req = NoReq
    /\ ui = NoUI
    /\ built = NoBuilt
    /\ conc = NoConc
    /\ calc = NoCalc

cfgFrame ==
    <<vsVars, disk, cleared, vector_store, rag_chain, up, resp, chat, req, ui, conc, calc>>

\* os.environ changes.
SetEnv ==
    /\ api_key' = ~api_key
    /\ UNCHANGED <<cfgFrame, built>>

\* EmbeddingManager(embedding_type=...)
NewEmbeddingManager ==
    \E t \in EmbeddingTypes :
        LET r == EmbeddingManager(t, api_key)
        IN /\ built' = [built EXCEPT !.what = "EmbeddingManager",
                                     !.hosted = (t = "openai"), !.key = api_key,
                                     !.err = r.err, !.usable = r.obj.exists,
                                     !.manager = r.obj]
           /\ UNCHANGED <<cfgFrame, api_key>>

\* VectorStore(store_type=...), with the manager built last or with none.
NewStore ==
    \E t \in StoreTypes, em \in {NoManager, built.manager} :
        LET r == VectorStore(t, em, api_key)
        IN /\ built' = [built EXCEPT !.what = "VectorStore",
                                     !.hosted = ~em.exists, !.key = api_key,
                                     !.err = r.err, !.usable = (r.obj # NoneStore),
                                     !.store = r.obj]
           /\ UNCHANGED <<cfgFrame, api_key>>

\* RAGChain(vector_store=...) over a store like the one built last, empty or
\* holding documents.
NewChain ==
    \E docs \in {<<>>} \cup Batches :
        /\ built.store # NoneStore
        /\ LET vs == IF docs = <<>> THEN built.store
                     ELSE create_vector_store(built.store, disk, docs, FALSE).self
               r == RAGChain(vs, api_key)
           IN built' = [built EXCEPT !.what = "RAGChain", !.hosted = TRUE,
                                     !.key = api_key, !.err = r.err,
                                     !.usable = r.chain.exists, !.chain = r.chain]
        /\ UNCHANGED <<cfgFrame, api_key>>

\* PDFProcessor(chunk_size=..., chunk_overlap=...)
NewPDFProcessor ==
    \E chunk_size \in ChunkSizes, chunk_overlap \in ChunkOverlaps, strict \in BOOLEAN :
        LET r == PDFProcessor(chunk_size, chunk_overlap, strict)
        IN /\ built' = [built EXCEPT !.what = "PDFProcessor", !.hosted = FALSE,
                                     !.key = api_key, !.err = r.err,
                                     !.usable = (r.err = NoErr),
                                     !.chunk_size = r.chunk_size,
                                     !.chunk_overlap = r.chunk_overlap]
           /\ UNCHANGED <<cfgFrame, api_key>>

NextConfig ==
    \/ SetEnv
    \/ NewEmbeddingManager
    \/ NewStore
    \/ NewChain
    \/ NewPDFProcessor

SpecConfig == InitConfig /\ [][NextConfig]_vars

\* ------------------------------------- SpecConc: requests sharing the index

\* The API process after startup on an empty persist directory, with the
\* key set (without it no chain is ever made).
InitConc ==
    /\ disk = EmptyDisk
    /\ cleared = FALSE
    /\ VSIdle
    /\ vector_store = get_rag_components(NoneStore, EmptyDisk, FALSE)
    /\ rag_chain = NoChain
    /\ api_key = TRUE
    /\ up = [r \in Requests |-> Idle]
    /\ resp = Response("", 0, NoErr)
    /\ chat = NoChat
    /\ req = NoReq
    /\ ui = NoUI
    /\ built = NoBuilt
    /\ calc = NoCalc
    /\ conc = NoConc

concFrame == <<vsVars, cleared, api_key, up, resp, chat, req, ui, built, calc>>

\* The identities an index object may have, and one that neither the store
\* nor the chain refers to.
ObjectIds == {1, 2, 3}
NewId == CHOOSE i \in ObjectIds : i \notin {conc.index_id, conc.bound_id}

\* The index as the chain's retriever sees it: as_retriever() keeps the
\* index object it was called on.
RetrieverView ==
    IF rag_chain.exists /\ conc.bound_id # conc.index_id
    THEN [vector_store EXCEPT !.vector_store = FaissIndex(conc.bound_docs)]
    ELSE vector_store

\* The globals and the object identities after a handler: add_documents on
\* an index appends to the object in place, on None it makes a new object;
\* delete_vector_store drops the object; a chain made by the handler is
\* bound to the object the store held then.
Share(h, c) ==
    LET was == vector_store.vector_store.init
        is == h.vector_store.vector_store.init
        index_id == IF ~is THEN 0 ELSE IF was THEN conc.index_id ELSE NewId
        bound_id == IF ~h.rag_chain.exists THEN 0
                    ELSE IF rag_chain.exists THEN conc.bound_id
                    ELSE conc.index_id
    IN /\ vector_store' = h.vector_store
       /\ rag_chain' = h.rag_chain
       /\ disk' = h.disk
       /\ conc' = [c EXCEPT !.index_id = index_id, !.bound_id = bound_id,
                            !.bound_docs =
                                IF bound_id = 0 \/ bound_id = index_id THEN <<>>
                                ELSE IF conc.bound_id = conc.index_id
                                THEN Entries(vector_store, disk)
                                ELSE @,
                            !.last = [ep |-> h.resp.ep, code |-> h.resp.code,
                                      question |-> c.last.question, k |-> c.last.k,
                                      docs |-> h.resp.docs]]

\* POST /upload up to "await file.read()": the dependency has run, the
\* handler is suspended and other requests are served.
ConcUploadBegin ==
    \E r \in ConcRequests :
        /\ conc.up[r].pc = "idle"
        /\ conc' = [conc EXCEPT !.up[r].pc = "reading"]
        /\ UNCHANGED <<concFrame, vector_store, rag_chain, disk>>

\* POST /upload from the file read to the response, without suspension.
ConcUploadFinish ==
    \E r \in ConcRequests, parsed \in ParseOutcomes, failAdd \in BOOLEAN,
       failSave \in BOOLEAN :
        /\ conc.up[r].pc = "reading"
        /\ Fits(vector_store, disk, parsed.docs)
        /\ LET h == upload_pdf(vector_store, rag_chain, disk, <<>>, parsed, failAdd,
                               failSave)
           IN Share(h, [conc EXCEPT !.up[r] = [pc |-> "done", code |-> h.resp.code,
                                               chunks |-> h.resp.n]])
        /\ UNCHANGED concFrame

\* POST /query: the chain retrieves from the index object it is bound to.
ConcQuery ==
    \E question \in Queries, k \in KValues, fail \in BOOLEAN, answer \in Answers :
        LET h == query_documents(RetrieverView, rag_chain, disk, api_key, question, k,
                                 fail, answer)
        IN /\ Share([h EXCEPT !.vector_store = vector_store],
                    [conc EXCEPT !.last.question = question, !.last.k = k])
           /\ UNCHANGED concFrame

\* POST /chat without a history
ConcChat ==
    \E question \in Queries, fail \in BOOLEAN, answer \in Answers :
        LET h == chat_with_documents(RetrieverView, rag_chain, disk, api_key, question,
                                     NoneHistory, fail, answer)
        IN /\ Share([h EXCEPT !.vector_store = vector_store],
                    [conc EXCEPT !.last.question = question, !.last.k = DefaultK])
           /\ UNCHANGED concFrame

\* DELETE /documents
ConcClear ==
    LET h == clear_documents(vector_store, rag_chain, disk, FALSE)
    IN /\ Share(h, [conc EXCEPT !.cleared_since = TRUE])
       /\ UNCHANGED concFrame

\* Both uploads were answered: the next two start from the count reached.
ConcNext ==
    /\ \A r \in ConcRequests : conc.up[r].pc = "done"
    /\ conc' = [conc EXCEPT !.up = [r \in ConcRequests |-> ConcIdle],
                            !.base = get_document_count(vector_store, disk),
                            !.cleared_since = FALSE]
    /\ UNCHANGED <<concFrame, vector_store, rag_chain, disk>>

NextConc ==
    \/ ConcUploadBegin
    \/ ConcUploadFinish
    \/ ConcQuery
    \/ ConcChat
    \/ ConcClear
    \/ ConcNext

SpecConc == InitConc /\ [][NextConc]_vars

\* --------------------------------------------- SpecUtil: utils and Config

InitUtil ==
    /\ disk = EmptyDisk
    /\ cleared = FALSE
    /\ VSIdle
    /\ vector_store = NoneStore
    /\ rag_chain = NoChain
    /\ api_key = FALSE
    /\ up = [r \in Requests |-> Idle]
    /\ resp = Response("", 0, NoErr)
    /\ chat = NoChat
    /\ req = NoReq
    /\ ui = NoUI
    /\ built = NoBuilt
    /\ conc = NoConc
    /\ calc = NoCalc

utilFrame ==
    <<vsVars, disk, cleared, vector_store, rag_chain, api_key, up, resp, chat, req, ui,
      built, conc>>

\* The characters of a text, and the texts handed to truncate_text.
Chars == {"a", "b"}
Texts == UNION {[1..n -> Chars] : n \in 0..MaxText}

\* truncate_text(text, max_length)
Truncate ==
    \E text \in Texts, max_length \in 0..MaxLength :
        /\ calc' = [calc EXCEPT !.op = "truncate_text", !.text = text,
                                !.max_length = max_length,
                                !.result = truncate_text(text, max_length)]
        /\ UNCHANGED utilFrame

\* Config(config_dict)
NewConfig ==
    \E config_dict \in Overrides :
        LET c == Config(calc.objects, config_dict)
        IN /\ Len(calc.instances) < MaxInstances
           /\ calc' = [calc EXCEPT !.op = "Config", !.config_dict = config_dict,
                                   !.objects = c.objects,
                                   !.instances = Append(@, c.config)]
           /\ UNCHANGED utilFrame

NextUtil ==
    \/ Truncate
    \/ NewConfig

SpecUtil == InitUtil /\ [][NextUtil]_vars

\* ------------------------------------------------- SpecUI: the Streamlit UI

\* A browser session on a process with or without the key, over a persist
\* directory that is empty or holds an index saved earlier.
InitUI ==
    /\ disk \in {EmptyDisk, [EmptyDisk EXCEPT !.faiss[DefaultPath] = Snapshot(<<"a">>)]}
    /\ cleared = FALSE
    /\ VSIdle
    /\ vector_store = NoneStore
    /\ rag_chain = NoChain
    /\ api_key \in BOOLEAN
    /\ up = [r \in Requests |-> Idle]
    /\ resp = Response("", 0, NoErr)
    /\ chat = NoChat
    /\ req = NoReq
    /\ built = NoBuilt
    /\ conc = NoConc
    /\ calc = NoCalc
    /\ ui = NoUI

uiFrame ==
    <<vsVars, cleared, vector_store, rag_chain, api_key, up, resp, chat, req, built, conc,
      calc>>

\* The options of the "Embedding Model" select box.
UiEmbeddingTypes == {"huggingface", "openai"}

\* What goes wrong in a run of "Proses File", if anything: reading the
\* persisted index, embedding the documents, or writing the index.
UiFailures == {"none", "load", "add", "save"}
\* The "Vector Store" select box, left at its first option.
UiStoreTypes == {"faiss"}
\* The question typed into the chat tab.
UiQuestions == {"a"}
\* What the hosted model answers.
UiAnswers == {"x"}

\* A script run that does no more than draw the page (a widget changed):
\* the chat tab makes the chain if it can.
Rerun ==
    \E embedding_type \in UiEmbeddingTypes :
        /\ ui' = [ui EXCEPT !.rag_chain = chat_tab_chain(ui, api_key, embedding_type),
                            !.last = [NoRun EXCEPT !.op = "rerun"]]
        /\ UNCHANGED <<uiFrame, disk>>

\* "Proses File": the store is set up if the session has none, the files
\* are processed on it, and the rest of the page is drawn.
ProcessFiles ==
    \E uploaded_files \in UiBatches, embedding_type \in UiEmbeddingTypes,
       vector_store_type \in UiStoreTypes, fails \in UiFailures :
        LET need == ui.vector_store = NoneStore
            failLoad == fails = "load"
            failAdd == fails = "add"
            failSave == fails = "save"
            s == IF need
                 THEN setup_rag_system(embedding_type, vector_store_type, disk, api_key,
                                       failLoad)
                 ELSE [err |-> NoErr, embedding_manager |-> ui.embedding_manager,
                       vector_store |-> ui.vector_store]
            run == [NoRun EXCEPT !.op = "process", !.embedding_type = embedding_type,
                                 !.files = uploaded_files, !.setup = need,
                                 !.setup_err = s.err]
        IN IF s.vector_store = NoneStore
           THEN /\ ui' = [ui EXCEPT !.rag_chain = chat_tab_chain(ui, api_key, embedding_type),
                                    !.last = run]
                /\ UNCHANGED <<uiFrame, disk>>
           ELSE LET p == process_uploaded_files(uploaded_files, s.vector_store, disk,
                                                ui.processed_files, failAdd, failSave)
                    u == [ui EXCEPT !.vector_store = p.vector_store,
                                    !.embedding_manager = s.embedding_manager,
                                    !.processed_files = p.processed_files]
                IN /\ Len(p.processed_files) <= MaxFiles
                   /\ Fits(s.vector_store, disk, ProcessedDocs(ParsedFiles(uploaded_files)))
                   /\ ui' = [u EXCEPT !.rag_chain = chat_tab_chain(u, api_key, embedding_type),
                                      !.last = [run EXCEPT
                                          !.held = Entries(s.vector_store, disk),
                                          !.tmp_left = TempFilesLeft(uploaded_files),
                                          !.success = p.success, !.err = p.err]]
                   /\ disk' = p.disk
                   /\ UNCHANGED uiFrame

\* "Tanya" with a question: the button is drawn when the session has a
\* chain; chat_with_history, and the history it returns kept.
Ask ==
    \E embedding_type \in UiEmbeddingTypes, user_question \in UiQuestions, fail \in BOOLEAN,
       answer \in UiAnswers :
        LET chain == chat_tab_chain(ui, api_key, embedding_type)
            r == chat_with_history(chain, ui.vector_store, disk, user_question,
                                   History(ui.chat_history), fail, answer)
        IN /\ chain.exists
           /\ Len(ui.chat_history) < MaxUiTurns
           /\ ui' = [ui EXCEPT !.rag_chain = r.chain,
                               !.chat_history = IF r.err = NoErr THEN r.chat_history.turns
                                                ELSE @,
                               !.last = [NoRun EXCEPT !.op = "ask",
                                                      !.err = Wrap("Error getting response",
                                                                   r.err),
                                                      !.success = (r.err = NoErr),
                                                      !.generated = (r.err = NoErr)]]
           /\ UNCHANGED <<uiFrame, disk>>

\* "Hapus Riwayat"
ClearHistory ==
    \E embedding_type \in UiEmbeddingTypes :
        LET chain == chat_tab_chain(ui, api_key, embedding_type)
        IN /\ chain.exists
           /\ ui' = [ui EXCEPT !.rag_chain = chain, !.chat_history = <<>>,
                               !.last = [NoRun EXCEPT !.op = "clear_history"]]
           /\ UNCHANGED <<uiFrame, disk>>

\* "Hapus Semua Data": drawn when files were processed.  The chat tab is
\* drawn first; delete_vector_store is not in a try, so when it raises the
\* session keeps what it has.
ClearAll ==
    \E embedding_type \in UiEmbeddingTypes, fail \in BOOLEAN :
        LET chain == chat_tab_chain(ui, api_key, embedding_type)
            r == delete_vector_store(ui.vector_store, disk, fail)
            run == [NoRun EXCEPT !.op = "clear_all"]
        IN /\ ui.processed_files # <<>>
           /\ IF ui.vector_store # NoneStore /\ r.err # NoErr
              THEN /\ ui' = [ui EXCEPT !.rag_chain = chain, !.last = [run EXCEPT !.err = r.err]]
                   /\ disk' = disk
              ELSE /\ ui' = [NoUI EXCEPT !.last = [run EXCEPT !.success = TRUE]]
                   /\ disk' = IF ui.vector_store # NoneStore THEN r.disk ELSE disk
           /\ UNCHANGED uiFrame

\* The page opened in a new session: session_state starts over, the
\* persist directory stays.
NewSession ==
    /\ ui' = [NoUI EXCEPT !.last = [NoRun EXCEPT !.op = "session"]]
    /\ UNCHANGED <<uiFrame, disk>>

NextUI ==
    \/ Rerun
    \/ ProcessFiles
    \/ Ask
    \/ ClearHistory
    \/ ClearAll
    \/ NewSession

SpecUI == InitUI /\ [][NextUI]_vars

\* ====================================================================
\* Properties
\* ====================================================================

Count == get_document_count(self, disk)
IsPrefix(s, t) == Len(s) <= Len(t) /\ SubSeq(t, 1, Len(s)) = s
SearchOps == {"similarity_search", "similarity_search_with_score"}
SearchContext(op) ==
    IF op = "similarity_search" THEN "Error performing similarity search"
    ELSE "Error performing similarity search with score"

\* C3 (as claimed): clearing is irreversible.  Once delete_vector_store has
\* succeeded and nothing has been inserted since, the store never again
\* reports entries: whatever is called next (a load from the same persist
\* directory, a fresh object after a restart), the count stays 0.
C3_ClearIrreversible == cleared => Count = 0

\* C5: similarity_search and similarity_search_with_score on a store whose
\* index does not exist raise "Vector store not initialized" (under the
\* method's context message) for every query and k, return nothing, and
\* leave the store uninitialized with count 0 and the disk untouched.
C5_SearchUninitializedFails ==
    [][(last'.op \in SearchOps /\ ~self.vector_store.init) =>
           /\ last'.err = Wrap(SearchContext(last'.op), Raise(NotInitialized))
           /\ last'.docs = <<>>
           /\ last'.pairs = <<>>
           /\ ~self'.vector_store.init
           /\ Count' = 0
           /\ disk' = disk]_vars

\* A search with score has been tried on an object that never held an index
\* (nothing inserted, nothing loaded, nothing cleared) and was refused.
C5_Witness ==
    /\ last.op = "similarity_search_with_score"
    /\ last.err = <<"Error performing similarity search with score", NotInitialized>>
    /\ last.k = MaxK
    /\ ~last.was_init
    /\ ~cleared
    /\ disk = EmptyDisk

\* C6 (as claimed): an add_documents call that returns adds exactly its n
\* documents: the count after equals the count before plus n, also when
\* the same documents are inserted again.
C6_AddCountsUp ==
    [][(last'.op = "add_documents" /\ last'.err = NoErr) =>
           Count' = Count + Len(last'.arg)]_vars

\* C7: persist/restore round trip.  A load that returns, with the path
\* argument of the last successful save and no write to the index since
\* that save, yields the count the store had at save time and, for every
\* query and k, the results the saved entries give; with the default
\* location and with an explicit path.
C7_RoundTrip ==
    [][(/\ last'.op = "load_vector_store"
        /\ last'.err = NoErr
        /\ saved.valid
        /\ saved.path = last'.arg) =>
           /\ Count' = Len(saved.entries)
           /\ \A q \in Queries, k \in KValues :
                /\ similarity_search(self', disk', q, k, FALSE).docs
                       = TopK(saved.entries, q, k)
                /\ similarity_search_with_score(self', disk', q, k, FALSE).pairs
                       = WithScores(TopK(saved.entries, q, k), q)]_vars

\* A fresh object has loaded, from an explicit path, what was saved there:
\* MaxEntries entries.
C7_Witness ==
    /\ last.op = "load_vector_store"
    /\ last.err = NoErr
    /\ last.arg = CustomPath
    /\ ~last.was_init
    /\ saved.valid
    /\ saved.path = CustomPath
    /\ Len(saved.entries) = MaxEntries
    /\ Count = MaxEntries

\* Nothing is persisted at the place load_vector_store(path) reads.
NoPersistedState(s, d, path) ==
    IF s.store_type = "faiss" THEN ~d.faiss[FaissLoadPath(path)].exists
    ELSE d.chroma = <<>>

\* C8 (as claimed): load_vector_store is a no-op when nothing is persisted
\* at the location, on either backend: it raises nothing and leaves the
\* object (an uninitialized store stays uninitialized) and the disk as
\* they were.
C8_LoadNothingIsNoOp ==
    [][(/\ last'.op = "load_vector_store"
        /\ ~last'.fail
        /\ NoPersistedState(self, disk, last'.arg)) =>
           /\ last'.err = NoErr
           /\ self' = self
           /\ disk' = disk]_vars

\* C9 (as claimed): entries are append-only.  Every method call other than
\* delete_vector_store keeps every stored entry in place: the entries
\* before are a prefix of the entries after, so the count never decreases.
C9_AppendOnlyAsClaimed ==
    [][(last'.op \notin {"delete_vector_store", "__init__"}) =>
           IsPrefix(Entries(self, disk), Entries(self', disk'))]_vars

\* C9 (amended): add_documents, the searches, save_vector_store,
\* get_document_count and get_store_info keep every stored entry in place,
\* and an add_documents that succeeds on an existing index leaves exactly
\* the entries held followed by its documents; only delete_vector_store,
\* load_vector_store and create_vector_store may remove or replace entries.
C9_AppendOnly ==
    [][(last'.op \notin {"delete_vector_store", "load_vector_store",
                         "create_vector_store", "__init__"}) =>
           /\ IsPrefix(Entries(self, disk), Entries(self', disk'))
           /\ Count' >= Count
           /\ (last'.op = "add_documents" /\ last'.was_init /\ last'.err = NoErr) =>
                  Entries(self', disk') = Entries(self, disk) \o last'.arg]_vars

\* An add has appended one document to an index that already held entries.
C9_Witness ==
    /\ last.op = "add_documents"
    /\ last.err = NoErr
    /\ last.was_init
    /\ Len(last.arg) = 1
    /\ Count = MaxEntries

\* -------------------------------------------------------------- the API process

ClientErrors == 400..499
QuestionEndpoints == {"query", "chat", "similar"}
IsNotInitialized(detail) == detail # NoErr /\ Last(detail) = NotInitialized

\* C1 (as claimed): POST /upload with a name that does not end in ".pdf"
\* (case-insensitive) is answered with a 400-class response, for every such
\* name, and touches neither the index nor the disk.
C1_NonPdfRejectedWith400 ==
    [][(resp'.ep = "upload" /\ ~IsPdfName(resp'.filename)) =>
           /\ resp'.code \in ClientErrors
           /\ vector_store' = vector_store
           /\ disk' = disk]_vars

\* C2 (as claimed): once DELETE /documents has succeeded, every GET /status
\* answered before the next successful upload reports documents_count = 0.
C2_StatusZeroAfterClear ==
    (cleared /\ resp.ep = "status" /\ resp.code = OK) => resp.n = 0

C10_HistoryExtendedByOne ==
    (chat.via # "" /\ chat.err = NoErr) =>
        /\ chat.chat_history = Append(chat.given.turns,
                                      Turn(chat.question, chat.generated))
        /\ Len(chat.chat_history) = Len(chat.given.turns) + 1
        /\ chat.answer = chat.generated

\* A chat has succeeded on a history longer than the three turns its
\* context uses.
C10_Witness ==
    /\ chat.via = "chat_with_history"
    /\ chat.err = NoErr
    /\ Len(chat.given.turns) = MaxHistory
    /\ MaxHistory > HistoryWindow
    /\ Len(chat.chat_history) = MaxHistory + 1
    /\ Len(chat.asked) > 1

\* ------------------------------------------------- the text handed to generation

\* The turns a question text quotes, read back from its pieces.
TurnsIn(text) ==
    [i \in 1..((Len(text) - 1) \div 5) |-> Turn(text[5 * i - 2], text[5 * i])]
\* The pieces a text quotes a turn with.
Quoted(t) == <<"Q: ", t.question, "\nA: ", t.answer, "\n\n">>
Contains(text, piece) ==
    \E i \in 1..(Len(text) - Len(piece) + 1) : SubSeq(text, i, i + Len(piece) - 1) = piece

\* C11: the text a successful chat hands to generation quotes, of a
\* history of n turns, the last min(3, n) turns in their original order
\* and no other turn.
C11_ContextIsLastThreeTurns ==
    (chat.via # "" /\ chat.err = NoErr) =>
        LET n == Len(chat.given.turns)
            m == Min(3, n)
        IN /\ Len(TurnsIn(chat.asked)) = m
           /\ \A i \in 1..m : TurnsIn(chat.asked)[i] = chat.given.turns[n - m + i]

\* A chat has succeeded on a history of more than three turns whose oldest
\* turn differs from the turns the text quotes.
C11_Witness ==
    /\ chat.via # ""
    /\ chat.err = NoErr
    /\ Len(chat.given.turns) > 3
    /\ Len(TurnsIn(chat.asked)) = 3
    /\ \A i \in 1..3 : TurnsIn(chat.asked)[i] # chat.given.turns[1]

\* C12: what a successful /chat request hands to generation: with turns in
\* its chat_history, a text that quotes the question and the answer of each
\* of the 3 most recent turns and ends with the current question; with an
\* empty or absent chat_history, exactly the current question.
C12_ChatPromptQuotesHistory ==
    (chat.via = "/chat" /\ chat.err = NoErr) =>
        LET turns == chat.given.turns
            n == Len(turns)
        IN IF n = 0
           THEN chat.asked = <<chat.question>>
           ELSE /\ Len(chat.asked) > 2
                /\ \A i \in 1..n : i > n - 3 => Contains(chat.asked, Quoted(turns[i]))
                /\ SubSeq(chat.asked, Len(chat.asked) - 1, Len(chat.asked))
                       = <<"Pertanyaan saat ini: ", chat.question>>

\* A /chat request whose chat_history holds one earlier turn, about another
\* question than the current one, has succeeded.
C12_Witness ==
    /\ chat.via = "/chat"
    /\ chat.err = NoErr
    /\ Len(chat.given.turns) = 1
    /\ chat.given.turns[1].question # chat.question
    /\ Contains(chat.asked, Quoted(chat.given.turns[1]))

\* ------------------------------------------------------- one question request

\* C13: within one request the retrieval-QA chain and the model are each
\* called at most once, exactly once when the request succeeds, and after
\* a failure nothing more happens in the request: the next step is a new
\* request.
C13_NoStepRetried ==
    /\ [](/\ req.chain_calls <= 1
          /\ req.llm_calls <= 1
          /\ req.stage = "DONE" => (req.chain_calls = 1 /\ req.llm_calls = 1))
    /\ [][req.stage = "FAILED" =>
             /\ req'.stage \in {"FAILED", "RECEIVED"}
             /\ req'.stage = "RECEIVED" =>
                    (req'.stages = <<"RECEIVED">> /\ req'.chain_calls = 0
                     /\ req'.llm_calls = 0)]_vars

\* A request has failed at generation after its one call of the chain and
\* of the model.
C13_Witness ==
    /\ req.stage = "FAILED"
    /\ req.failed_from = "PROMPTED"
    /\ req.chain_calls = 1
    /\ req.llm_calls = 1

\* The stages of the request so far, without its end.
StagesBeforeEnd ==
    IF req.stages # <<>> /\ Last(req.stages) \in Terminal
    THEN Front(req.stages) ELSE req.stages

C15_FailureFailsWholeRequest ==
    req.stage = "FAILED" =>
        /\ resp.ep = req.ep
        /\ resp.code = ServerError
        /\ resp.answer = "" /\ resp.docs = <<>> /\ resp.chat_history = <<>>
        /\ Head(resp.detail) = HandlerContext(req.ep)
        /\ req.failed_from # "GENERATED" => req.turns = req.given.turns
        /\ req.chain_calls = 0 =>
               /\ req.failed_from = "RECEIVED"
               /\ \/ (~api_key /\ Tail(resp.detail) =
                         <<"Error initializing LLM", "OPENAI_API_KEY not found">>)
                  \/ (api_key /\ Tail(resp.detail) =
                         <<"Error setting up RAG chain", NotInitialized>>)
        /\ (req.chain_calls = 1 /\ req.failed_from # "GENERATED") =>
               Tail(resp.detail) =
                   IF req.ep = "query"
                   THEN <<"Error querying RAG system", ProviderFailure>>
                   ELSE <<"Error in chat with history", "Error querying RAG system",
                          ProviderFailure>>
        /\ req.failed_from = "GENERATED" => Tail(resp.detail) = <<ResponseFailure>>

\* A /chat request with an earlier turn has failed at generation.
C15_Witness ==
    /\ req.stage = "FAILED"
    /\ req.ep = "chat"
    /\ req.failed_from = "PROMPTED"
    /\ Len(req.given.turns) = 1
    /\ Last(resp.detail) = ProviderFailure

\* ------------------------------------------------------------------- /similar

\* pairs are k nearest entries of the index to q, nearest first, each with
\* its distance.
NearestWithScores(pairs, entries, q, k) ==
    /\ Len(pairs) = Min(k, Len(entries))
    /\ \A i \in 1..Len(pairs) :
          /\ \E j \in 1..Len(entries) : entries[j] = pairs[i][1]
          /\ pairs[i][2] = Dist(q, pairs[i][1])
          /\ i > 1 => pairs[i - 1][2] <= pairs[i][2]
    /\ pairs # <<>> =>
          Cardinality({j \in 1..Len(entries) :
                          Dist(q, entries[j]) < pairs[Len(pairs)][2]}) < Len(pairs)

\* C20: a GET /similar leaves the index, what is persisted and the global
\* rag_chain as they were, whether or not a chain exists; when it succeeds
\* it returns the nearest entries with their scores and no answer; when it
\* fails, the failure is the search's, never the chain's or the model's.
C20_SimilarWithoutGeneration ==
    [][resp'.ep = "similar" =>
          /\ vector_store' = vector_store
          /\ disk' = disk
          /\ rag_chain' = rag_chain
          /\ resp'.answer = ""
          /\ resp'.code = OK =>
                 \E q \in Queries, k \in KValues :
                     NearestWithScores(resp'.pairs, Entries(vector_store, disk), q, k)
          /\ resp'.code # OK =>
                 resp'.detail \in
                     {<<"Error finding similar documents",
                        "Error performing similarity search with score", m>> :
                          m \in {NotInitialized, ProviderFailure}}]_vars

\* A /similar has returned scored entries while no RAG chain exists and no
\* key is set.
C20_Witness ==
    /\ resp.ep = "similar"
    /\ resp.code = OK
    /\ resp.pairs # <<>>
    /\ ~rag_chain.exists
    /\ ~api_key

\* --------------------------------------------------------------- construction

\* C18: constructing a hosted component without OPENAI_API_KEY in the
\* environment raises an error that names the missing key and gives no
\* object: EmbeddingManager("openai"), a VectorStore given no embedding
\* manager, and RAGChain, whose model is the hosted one.
C18_HostedWithoutKeyFails ==
    (built.what # "" /\ built.hosted /\ ~built.key) =>
        /\ built.err # NoErr
        /\ Last(built.err) = KeyNotFound
        /\ ~built.usable
        /\ built.what = "EmbeddingManager" => built.manager = NoManager
        /\ built.what = "VectorStore" => built.store = NoneStore
        /\ built.what = "RAGChain" => built.chain = NoChain

\* A VectorStore was constructed with no embedding manager and no key, after
\* one had been constructed with a local manager.
C18_Witness ==
    /\ built.what = "VectorStore"
    /\ built.hosted
    /\ ~built.key
    /\ built.err # NoErr
    /\ built.manager = Manager("huggingface")

\* ------------------------------------------------------------ the UI: C16

ParsedOk(file) == file.parsed.ok
NamesOf(files) == [i \in 1..Len(files) |-> files[i].name]
RECURSIVE DocsOf(_)
DocsOf(files) == IF files = <<>> THEN <<>> ELSE Head(files).parsed.docs \o DocsOf(Tail(files))

\* C16: in a batch processed through the UI a file that fails to parse is
\* skipped without stopping the batch: the records appended are exactly
\* those of the files that parsed, in order; when the run succeeds the
\* index holds what it held followed by the chunks of the files that
\* parsed, in order; and in every case the index holds what it held or
\* that, so a failed file adds no chunk and gets no record.
C16_BadFileSkipped ==
    [][(ui'.last.op = "process" /\ ui'.vector_store # NoneStore) =>
        LET good == SelectSeq(ui'.last.files, ParsedOk)
            now == Entries(ui'.vector_store, disk')
        IN /\ ui'.processed_files = ui.processed_files \o NamesOf(good)
           /\ ui'.last.success => now = ui'.last.held \o DocsOf(good)
           /\ now \in {ui'.last.held, ui'.last.held \o DocsOf(good)}
           /\ ui'.last.success = (good # <<>> /\ ui'.last.err = NoErr)]_vars

\* C16 witness: a batch of a file that fails and a file that parses was
\* processed: the second file alone was recorded and indexed.
C16_Witness ==
    /\ ui.last.op = "process"
    /\ ui.last.files = <<BadFile, GoodFile2>>
    /\ ui.last.success
    /\ ui.processed_files = <<"f2">>
    /\ Entries(ui.vector_store, disk) = ui.last.held \o <<"b">>

\* ------------------------------------------------------------ the UI: C17

\* C17, as claimed for the UI: loading the persisted index when the store
\* is set up is best-effort, so a "Proses File" run that sets the store up
\* with an embedding provider that can be made leaves the session with a
\* usable store, whether or not the load worked.
C17_StartupLoadBestEffort ==
    (/\ ui.last.op = "process"
     /\ ui.last.setup
     /\ initialize_embeddings(ui.last.embedding_type, api_key) = NoErr)
    => ui.vector_store # NoneStore

\* ------------------------------------------------------------ the UI: C19

\* C19, as claimed: without the key the hosted embeddings cannot be
\* selected, or the local ones take their place: a "Proses File" run that
\* sets the store up either ran with the local selection or left the
\* session with the local provider.
C19_LocalProviderForced ==
    (~api_key /\ ui.last.op = "process" /\ ui.last.setup)
    => \/ ui.last.embedding_type = "huggingface"
       \/ ui.embedding_manager = Manager("huggingface")

\* C19, amended: without the key no hosted component is ever in use: the
\* provider the session holds, if any, is the local one; selecting the
\* hosted embeddings makes the setup fail on the missing key and leaves no
\* store; the session never has a chain, no answer is generated and the
\* history stays empty.
C19_NoHostedWithoutKey ==
    ~api_key =>
        /\ ui.embedding_manager \in {NoManager, Manager("huggingface")}
        /\ ~ui.rag_chain.exists
        /\ ~ui.last.generated
        /\ ui.chat_history = <<>>
        /\ (ui.last.op = "process" /\ ui.last.setup /\ ui.last.embedding_type = "openai")
           => /\ ui.vector_store = NoneStore
              /\ ui.last.setup_err # NoErr
              /\ Last(ui.last.setup_err) = KeyNotFound

\* C19 witness: without the key, files were processed with the local
\* provider and the chat tab was drawn on the filled store: no chain.
C19_Witness ==
    /\ ~api_key
    /\ ui.last.op = "rerun"
    /\ ui.embedding_manager = Manager("huggingface")
    /\ ui.processed_files # <<>>
    /\ ui.vector_store.vector_store.init
    /\ ~ui.rag_chain.exists

\* ----------------------------------------------------------- the API: C21

\* The count a new process on the same persist directory reports when its
\* load at startup works.
FreshCount == get_document_count(get_rag_components(NoneStore, disk, FALSE), disk)
AddFailed(r) == Len(r.detail) > 1 /\ r.detail[2] = "Error adding documents"
ParseFailed(r) == Len(r.detail) > 1 /\ r.detail[2] = "Error processing PDF to documents"

\* C21: the index persists across API calls: when POST /upload has
\* answered 200 the persisted snapshot is the in-memory index and a new
\* process loading it reports the same count; an upload whose parse or
\* insert failed has written nothing, so the persist step runs only after
\* the insert succeeded.
C21_UploadPersists ==
    /\ []((resp.ep = "upload" /\ resp.code = OK) =>
            /\ disk.faiss[DefaultPath] = Snapshot(Entries(vector_store, disk))
            /\ FreshCount = get_document_count(vector_store, disk))
    /\ [][(resp'.ep = "upload" /\ (AddFailed(resp') \/ ParseFailed(resp')))
           => disk' = disk]_vars

\* C21 witness: an upload answered 200 on an index that already held an
\* entry, and the snapshot holds both.
C21_Witness ==
    /\ resp.ep = "upload"
    /\ resp.code = OK
    /\ resp.n = 1
    /\ Len(Entries(vector_store, disk)) = 2
    /\ disk.faiss[DefaultPath].docs = Entries(vector_store, disk)

\* ------------------------------------------------------ VectorStore: C22

C23_InvalidChunkingRejected ==
    (/\ built.what = "PDFProcessor"
     /\ (built.chunk_size <= 0 \/ built.chunk_overlap >= built.chunk_size))
    => built.err # NoErr

\* ----------------------------------------------------------- the API: C24

\* C24, as claimed: a POST /upload that answers an error leaves the
\* in-memory document count and the persisted snapshot as they were.
C24_FailedUploadLeavesIndex ==
    [][(resp'.ep = "upload" /\ resp'.code # OK)
       => /\ get_document_count(vector_store', disk') = get_document_count(vector_store, disk)
          /\ disk' = disk]_vars

\* ------------------------------------------------ the API, shared index: C25

\* C25: under every interleaving of upload, query, chat and delete
\* requests, a chain that exists is bound to the index object the store
\* holds, and a question answered 200 got the nearest entries of the index
\* as it is held now, never those of an index cleared or replaced.
C25_ChainBoundToCurrentIndex ==
    /\ rag_chain.exists =>
           /\ conc.index_id # 0
           /\ conc.bound_id = conc.index_id
           /\ vector_store.vector_store.init
    /\ (conc.last.ep \in {"query", "chat"} /\ conc.last.code = OK) =>
           conc.last.docs = TopK(Entries(vector_store, disk), conc.last.question,
                                 conc.last.k)

\* C25 witness: the index was cleared and filled again, an upload is
\* suspended at its file read, and a query was answered by a chain bound
\* to the index object held now.
C25_Witness ==
    /\ conc.last.ep = "query"
    /\ conc.last.code = OK
    /\ conc.cleared_since
    /\ \E r \in ConcRequests : conc.up[r].pc = "reading"
    /\ rag_chain.exists
    /\ conc.bound_id = conc.index_id
    /\ conc.last.docs # <<>>

\* ------------------------------------------------ the API, shared index: C26

\* C26: two uploads dispatched together lose no update: once both have
\* answered 200, with no DELETE since they started, the count is the count
\* they started from plus the chunks the two responses report, and the
\* persisted snapshot holds exactly the index, the chunks of both included.
C26_NoLostUpload ==
    (/\ \A r \in ConcRequests : conc.up[r].pc = "done" /\ conc.up[r].code = OK
     /\ ~conc.cleared_since)
    => /\ get_document_count(vector_store, disk)
            = conc.base + conc.up["r1"].chunks + conc.up["r2"].chunks
       /\ disk.faiss[DefaultPath] = Snapshot(Entries(vector_store, disk))

\* C26 witness: both uploads were suspended together, both answered 200
\* with one chunk each, and the index and the snapshot hold the two.
C26_Witness ==
    /\ \A r \in ConcRequests :
           conc.up[r].pc = "done" /\ conc.up[r].code = OK /\ conc.up[r].chunks = 1
    /\ ~conc.cleared_since
    /\ conc.base = 0
    /\ get_document_count(vector_store, disk) = 2
    /\ Len(disk.faiss[DefaultPath].docs) = 2

\* ------------------------------------------------------------ the UI: C27

\* C27, as claimed: in the UI session every file recorded in
\* processed_files has its chunks in the session's vector store.
C27_RecordsMatchIndex ==
    \A i \in 1..Len(ui.processed_files) :
        \A file \in {GoodFile1, GoodFile2, BadFile} :
            file.name = ui.processed_files[i] =>
                \A j \in 1..Len(file.parsed.docs) :
                    \E n \in 1..Len(Entries(ui.vector_store, disk)) :
                        Entries(ui.vector_store, disk)[n] = file.parsed.docs[j]

\* ------------------------------------------------------------ the UI: C28

\* C28, as claimed for the UI batch processor: when the handling of a
\* batch has ended, no temporary file made for one of its files is left.
C28_TempFilesDeleted ==
    ui.last.op = "process" => ui.last.tmp_left = <<>>

\* ---------------------------------------------------------------- Config: C29

\* C29, as claimed: whatever Config instances were constructed with
\* override dictionaries, DEFAULT_CONFIG and the module-level config
\* instance still give the original default values, from get and from the
\* get_*_config accessors.
C29_ConfigIsolated ==
    /\ calc.objects = DefaultObjects
    /\ ConfigGet(DEFAULT_CONFIG, calc.objects, <<"pdf_processing", "chunk_size">>,
                 Scalar(0)) = Scalar(DefaultObjects.pdf_processing.chunk_size)
    /\ get_pdf_config(DEFAULT_CONFIG, calc.objects) = DefaultObjects.pdf_processing
    /\ get_llm_config(DEFAULT_CONFIG, calc.objects) = DefaultObjects.llm

\* ----------------------------------------------------------------- utils: C30

\* C30, as claimed: for every text and every max_length >= 0 the result of
\* truncate_text is at most max_length long; it is the text when that is
\* at most max_length long, and otherwise a prefix of the text followed
\* by "...".
C30_TruncateBounded ==
    calc.op = "truncate_text" =>
        /\ calc.max_length >= 0
        /\ Len(calc.result) <= calc.max_length
        /\ IF Len(calc.text) <= calc.max_length
           THEN calc.result = calc.text
           ELSE \E n \in 0..Len(calc.text) :
                    calc.result = SubSeq(calc.text, 1, n) \o Ellipsis

=============================================================================
